---- MODULE Spec2Model ----
(***************************************************************************)
(* A model of go-simplicity: the validator and the orchestrating Compile   *)
(* (pkg/compiler), the type mapper (pkg/types) and the transpiler          *)
(* (pkg/transpiler).                                                       *)
(*                                                                         *)
(* Representation.  A Go string that the program inspects or builds        *)
(* (identifier names, literal texts, mapped type strings, folded values)   *)
(* is a sequence of one-character strings, so that parsing, formatting,    *)
(* prefix tests and splitting are computed as the code computes them.      *)
(* Fixed fragments of output lines and of error messages, which the        *)
(* program only concatenates and never reads back, are whole strings       *)
(* inside such a sequence.  A syntax tree node is a record with a "kind"   *)
(* field naming its go/ast node type; a nil pointer is the node Nil.       *)
(***************************************************************************)
EXTENDS Integers, Sequences, FiniteSets, TLC

(***************************************************************************)
(* Bounds of the model.                                                    *)
(***************************************************************************)
\* Width, in bits, of the machine integers of the model.  The program uses
\* 64-bit integers (strconv.ParseInt(s, 10, 64), int64 arithmetic); the model
\* keeps the same two's complement behaviour at a width the model checker
\* can enumerate.
IntBits == 8
\* Nesting depth of array and struct types in the type expressions handed
\* to MapGoType.
MaxTypeDepth == 2
\* Number of field declarations in a struct type handed to MapGoType.
MaxFields == 2
\* Number of Compile calls made in one behaviour, over all compilers.
MaxCalls == 2
\* Number of statements in an entry function body handed to Compile.
MaxStmts == 2
\* Nesting depth of statements in the trees handed to the validator.
MaxNest == 1
\* Number of function declarations before the entry function in a tree
\* handed to ToSimplicityHL.
MaxFuncs == 2

(***************************************************************************)
(* Strings.                                                                *)
(***************************************************************************)
RECURSIVE Pow2(_)
Pow2(n) == IF n = 0 THEN 1 ELSE 2 * Pow2(n - 1)

IntCutoff == Pow2(IntBits - 1)

DigitChars == <<"0", "1", "2", "3", "4", "5", "6", "7", "8", "9">>

IsDigit(c) == \E i \in 1..10 : DigitChars[i] = c

DigitVal(c) == (CHOOSE i \in 1..10 : DigitChars[i] = c) - 1

\* strconv.ParseUint(s, 10, 64) on a non-empty string: the value, or "syntax"
\* on a character that is no decimal digit, or "range" when the value does
\* not fit.  acc is the value read so far.
RECURSIVE parseUintFrom(_, _)
parseUintNext(rest, n) ==
    IF n >= 2 * IntCutoff
    THEN [err |-> "range", val |-> 0]
    ELSE parseUintFrom(rest, n)

parseUintFrom(s, acc) ==
    IF s = <<>> THEN [err |-> "", val |-> acc]
    ELSE IF ~IsDigit(Head(s)) THEN [err |-> "syntax", val |-> 0]
    ELSE parseUintNext(Tail(s), acc * 10 + DigitVal(Head(s)))

\* ParseInt once the sign is split off: u is ParseUint's result on the rest.
parseSigned(neg, u) ==
    IF u.err # "" THEN u
    ELSE IF ~neg /\ u.val >= IntCutoff THEN [err |-> "range", val |-> 0]
    ELSE IF neg /\ u.val > IntCutoff THEN [err |-> "range", val |-> 0]
    ELSE [err |-> "", val |-> IF neg THEN 0 - u.val ELSE u.val]

parseBody(neg, body) ==
    IF body = <<>> THEN [err |-> "syntax", val |-> 0]
    ELSE parseSigned(neg, parseUintFrom(body, 0))

\* strconv.ParseInt(s, 10, 64) (and strconv.Atoi, which agrees with it):
\* an optional sign, then decimal digits only; no base prefix and no
\* underscore is accepted in base 10.
ParseInt(s) ==
    IF s = <<>> THEN [err |-> "syntax", val |-> 0]
    ELSE parseBody(Head(s) = "-", IF Head(s) \in {"+", "-"} THEN Tail(s) ELSE s)

RECURSIVE formatUint(_)
formatUint(n) ==
    IF n < 10 THEN <<DigitChars[n + 1]>>
    ELSE formatUint(n \div 10) \o <<DigitChars[(n % 10) + 1]>>

\* strconv.FormatInt(n, 10) and fmt's %d.
FormatInt(n) == IF n < 0 THEN <<"-">> \o formatUint(0 - n) ELSE formatUint(n)

\* strings.Join(elems, sep)
RECURSIVE Join(_, _)
Join(elems, sep) ==
    IF elems = <<>> THEN <<>>
    ELSE IF Len(elems) = 1 THEN elems[1]
    ELSE elems[1] \o sep \o Join(Tail(elems), sep)

(***************************************************************************)
(* Go strings used by the program, spelled out.                            *)
(***************************************************************************)
S_bool      == <<"b", "o", "o", "l">>
S_uint8     == <<"u", "i", "n", "t", "8">>
S_uint16    == <<"u", "i", "n", "t", "1", "6">>
S_uint32    == <<"u", "i", "n", "t", "3", "2">>
S_uint64    == <<"u", "i", "n", "t", "6", "4">>
S_byte      == <<"b", "y", "t", "e">>
S_u8        == <<"u", "8">>
S_u16       == <<"u", "1", "6">>
S_u32       == <<"u", "3", "2">>
S_u64       == <<"u", "6", "4">>
S_u256      == <<"u", "2", "5", "6">>
S_sig64     == <<"[", "u", "8", ";", " ", "6", "4", "]">>
S_unit      == <<"(", ")">>
S_Hash      == <<"H", "a", "s", "h">>
S_Address   == <<"A", "d", "d", "r", "e", "s", "s">>
S_Pubkey    == <<"P", "u", "b", "k", "e", "y">>
S_Signature == <<"S", "i", "g", "n", "a", "t", "u", "r", "e">>
S_Amount    == <<"A", "m", "o", "u", "n", "t">>
S_bitcoin   == <<"b", "i", "t", "c", "o", "i", "n">>
S_true      == <<"t", "r", "u", "e">>
S_false     == <<"f", "a", "l", "s", "e">>
S_auto      == <<"a", "u", "t", "o">>
S_main      == <<"m", "a", "i", "n">>
S_make      == <<"m", "a", "k", "e">>

(***************************************************************************)
(* Syntax tree nodes (go/ast).                                             *)
(***************************************************************************)
Nil == [kind |-> "nil"]

Ident(name)          == [kind |-> "Ident", Name |-> name]
BasicLit(k, value)   == [kind |-> "BasicLit", Kind |-> k, Value |-> value]
IntLit(value)        == BasicLit("INT", value)
ArrayType(len, elt)  == [kind |-> "ArrayType", Len |-> len, Elt |-> elt]
Field(names, type)   == [kind |-> "Field", Names |-> names, Type |-> type]
StructType(fields)   == [kind |-> "StructType", Fields |-> fields]
SelectorExpr(x, sel) == [kind |-> "SelectorExpr", X |-> x, Sel |-> sel]
StarExpr(x)          == [kind |-> "StarExpr", X |-> x]
MapType(k, v)        == [kind |-> "MapType", Key |-> k, Value |-> v]
ChanType(v)          == [kind |-> "ChanType", Value |-> v]
InterfaceType        == [kind |-> "InterfaceType"]
Ellipsis             == [kind |-> "Ellipsis"]

(***************************************************************************)
(* Results of operations that return (string, error).                      *)
(***************************************************************************)
NoErr   == <<>>
Ok(v)   == [val |-> v, err |-> NoErr]
Fail(m) == [val |-> <<>>, err |-> m]
\* fmt.Errorf("<prefix>: %w", err)
Errorf(prefix, e) == <<prefix>> \o e
\* The run-time panic of a selection through a nil pointer, which is no
\* error value: it unwinds through every caller up to the caller of Compile.
Panic == <<"panic: runtime error: invalid memory address or nil pointer dereference">>

(***************************************************************************)
(* pkg/types: TypeMapper.                                                  *)
(***************************************************************************)
\* The builtinTypes table without its "byte" entry.
builtinTypesNoByte ==
    << <<S_bool, S_bool>>, <<S_uint8, S_u8>>, <<S_uint16, S_u16>>,
       <<S_uint32, S_u32>>, <<S_uint64, S_u64>>,
       <<S_Hash, S_u256>>, <<S_Address, S_u256>>, <<S_Pubkey, S_u256>>,
       <<S_Signature, S_sig64>> >>

\* TypeMapper.builtinTypes as built by NewTypeMapper: <<key, value>> pairs.
builtinTypes ==
    << <<S_bool, S_bool>>, <<S_uint8, S_u8>>, <<S_uint16, S_u16>>,
       <<S_uint32, S_u32>>, <<S_uint64, S_u64>>, <<S_byte, S_u8>>,
       <<S_Hash, S_u256>>, <<S_Address, S_u256>>, <<S_Pubkey, S_u256>>,
       <<S_Signature, S_sig64>> >>

mapIdentType(ident) ==
    IF \E i \in DOMAIN builtinTypes : builtinTypes[i][1] = ident.Name
    THEN Ok(builtinTypes[CHOOSE i \in DOMAIN builtinTypes :
                             builtinTypes[i][1] = ident.Name][2])
    ELSE Ok(ident.Name)

mapSelectorType(sel) ==
    IF sel.X.kind = "Ident"
    THEN IF sel.X.Name = S_bitcoin
         THEN CASE sel.Sel = S_Hash      -> Ok(S_u256)
                [] sel.Sel = S_Address   -> Ok(S_u256)
                [] sel.Sel = S_Pubkey    -> Ok(S_u256)
                [] sel.Sel = S_Signature -> Ok(S_sig64)
                [] sel.Sel = S_Amount    -> Ok(S_u64)
                [] OTHER -> Fail(<<"unsupported bitcoin type: ">> \o sel.Sel)
         ELSE Fail(<<"unsupported qualified type: ">>
                   \o sel.X.Name \o <<".">> \o sel.Sel)
    ELSE Fail(<<"unsupported selector expression">>)

\* evaluateArrayLength on an INT literal: p is what strconv.Atoi returned.
atoiLength(p) ==
    IF p.err = "" THEN [val |-> p.val, err |-> NoErr]
    ELSE [val |-> p.val, err |-> <<"strconv.Atoi: parsing: ", p.err>>]

\* evaluateArrayLength: (int, error), val the length.
evaluateArrayLength(expr) ==
    IF expr.kind = "BasicLit" /\ expr.Kind = "INT"
    THEN atoiLength(ParseInt(expr.Value))
    ELSE IF expr.kind = "Ident"
    THEN [val |-> 0, err |-> <<"array length must be a literal integer">>]
    ELSE [val |-> 0,
          err |-> <<"unsupported array length expression: *ast.", expr.kind>>]

\* A struct formatting without the single-element special case.
formatTupleNoSingle(fieldTypes) ==
    <<"(">> \o Join(fieldTypes, <<",", " ">>) \o <<")">>

\* The final formatting step of mapStructType, given the slot types.
formatTuple(fieldTypes) ==
    IF Len(fieldTypes) = 1
    THEN <<"(">> \o fieldTypes[1] \o <<",", ")">>
    ELSE <<"(">> \o Join(fieldTypes, <<",", " ">>) \o <<")">>

\* fmt.Sprintf("[%s; %d]", elemType, length)
formatArray(elemType, length) ==
    <<"[">> \o elemType \o <<";", " ">> \o FormatInt(length) \o <<"]">>

RECURSIVE MapGoType(_)
RECURSIVE mapArrayType(_)
RECURSIVE mapStructType(_)
RECURSIVE structFieldTypes(_, _)

MapGoType(goType) ==
    CASE goType.kind = "Ident"        -> mapIdentType(goType)
      [] goType.kind = "ArrayType"    -> mapArrayType(goType)
      [] goType.kind = "StructType"   -> mapStructType(goType)
      [] goType.kind = "SelectorExpr" -> mapSelectorType(goType)
      [] OTHER -> Fail(<<"unsupported Go type: *ast.", goType.kind>>)

\* mapArrayType once the length is evaluated.
mapArrayTypeLength(elemType, length) ==
    IF length.err # NoErr
    THEN Fail(Errorf("failed to evaluate array length: ", length.err))
    ELSE Ok(formatArray(elemType, length.val))

\* mapArrayType once the element type is mapped.
mapArrayTypeElem(arrayType, elem) ==
    IF elem.err # NoErr
    THEN Fail(Errorf("failed to map array element type: ", elem.err))
    ELSE IF arrayType.Len = Nil
    THEN Fail(<<"slices are not supported, use fixed-size arrays">>)
    ELSE mapArrayTypeLength(elem.val, evaluateArrayLength(arrayType.Len))

mapArrayType(arrayType) == mapArrayTypeElem(arrayType, MapGoType(arrayType.Elt))

\* The slots one field adds: its type once per name, once if it has none.
fieldSlots(field, fieldType) ==
    IF Len(field.Names) = 0
    THEN <<fieldType>>
    ELSE [i \in 1..Len(field.Names) |-> fieldType]

\* The body of the loop of mapStructType once the field's type is mapped.
structFieldMapped(fields, acc, fieldType) ==
    IF fieldType.err # NoErr
    THEN [val |-> <<>>,
          err |-> Errorf("failed to map struct field type: ", fieldType.err)]
    ELSE structFieldTypes(Tail(fields), acc \o fieldSlots(Head(fields), fieldType.val))

\* The loop of mapStructType over Fields.List: the slot types collected so
\* far in acc, stopping at the first field whose type does not map.
structFieldTypes(fields, acc) ==
    IF fields = <<>> THEN [val |-> acc, err |-> NoErr]
    ELSE structFieldMapped(fields, acc, MapGoType(Head(fields).Type))

\* mapStructType after the loop.
structTuple(fts) == IF fts.err # NoErr THEN Fail(fts.err) ELSE Ok(formatTuple(fts.val))

mapStructType(structType) ==
    IF Len(structType.Fields) = 0 THEN Ok(S_unit)
    ELSE structTuple(structFieldTypes(structType.Fields, <<>>))

(***************************************************************************)
(* More syntax tree nodes: declarations, statements, expressions.  A node's *)
(* identifier children (names) are kept as strings: no operation of the    *)
(* program acts on an identifier node it meets while walking.              *)
(***************************************************************************)
File(decls)              == [kind |-> "File", Decls |-> decls]
BlockStmt(list)          == [kind |-> "BlockStmt", List |-> list]
\* FuncDecl: Params and Results are the lists of Type.Params and
\* Type.Results (an absent result list is the empty one), Body a BlockStmt.
FuncDecl(name, params, results, body) ==
    [kind |-> "FuncDecl", Name |-> name, Params |-> params,
     Results |-> results, Body |-> body]
GenDecl(tok, specs)      == [kind |-> "GenDecl", Tok |-> tok, Specs |-> specs]
ValueSpec(names, type, values) ==
    [kind |-> "ValueSpec", Names |-> names, Type |-> type, Values |-> values]
TypeSpec(name, type)     == [kind |-> "TypeSpec", Name |-> name, Type |-> type]
DeclStmt(decl)           == [kind |-> "DeclStmt", Decl |-> decl]
AssignStmt(lhs, tok, rhs) ==
    [kind |-> "AssignStmt", Lhs |-> lhs, Tok |-> tok, Rhs |-> rhs]
ReturnStmt(results)      == [kind |-> "ReturnStmt", Results |-> results]
IfStmt(cond, body, else) ==
    [kind |-> "IfStmt", Cond |-> cond, Body |-> body, Else |-> else]
ForStmt(cond, body)      == [kind |-> "ForStmt", Cond |-> cond, Body |-> body]
RangeStmt(x, body)       == [kind |-> "RangeStmt", X |-> x, Body |-> body]
GoStmt(call)             == [kind |-> "GoStmt", Call |-> call]
BinaryExpr(x, op, y)     == [kind |-> "BinaryExpr", X |-> x, Op |-> op, Y |-> y]
UnaryExpr(op, x)         == [kind |-> "UnaryExpr", Op |-> op, X |-> x]
CallExpr(fun, args)      == [kind |-> "CallExpr", Fun |-> fun, Args |-> args]
FuncLit(body)            == [kind |-> "FuncLit", Body |-> body]
ParenExpr(x)             == [kind |-> "ParenExpr", X |-> x]
ExprStmt(x)              == [kind |-> "ExprStmt", X |-> x]

NonNil(n) == IF n = Nil THEN <<>> ELSE <<n>>

\* The children ast.Walk visits below a node, in its order.
Children(n) ==
    CASE n.kind = "File"         -> n.Decls
      [] n.kind = "FuncDecl"     -> n.Params \o n.Results \o NonNil(n.Body)
      [] n.kind = "GenDecl"      -> n.Specs
      [] n.kind = "ValueSpec"    -> NonNil(n.Type) \o n.Values
      [] n.kind = "TypeSpec"     -> <<n.Type>>
      [] n.kind = "Field"        -> <<n.Type>>
      [] n.kind = "BlockStmt"    -> n.List
      [] n.kind = "DeclStmt"     -> <<n.Decl>>
      [] n.kind = "AssignStmt"   -> n.Lhs \o n.Rhs
      [] n.kind = "ReturnStmt"   -> n.Results
      [] n.kind = "IfStmt"       -> <<n.Cond, n.Body>> \o NonNil(n.Else)
      [] n.kind = "ForStmt"      -> NonNil(n.Cond) \o <<n.Body>>
      [] n.kind = "RangeStmt"    -> <<n.X, n.Body>>
      [] n.kind = "GoStmt"       -> <<n.Call>>
      [] n.kind = "ExprStmt"     -> <<n.X>>
      [] n.kind = "BinaryExpr"   -> <<n.X, n.Y>>
      [] n.kind = "UnaryExpr"    -> <<n.X>>
      [] n.kind = "CallExpr"     -> <<n.Fun>> \o n.Args
      [] n.kind = "ParenExpr"    -> <<n.X>>
      [] n.kind = "FuncLit"      -> <<n.Body>>
      [] n.kind = "ArrayType"    -> NonNil(n.Len) \o <<n.Elt>>
      [] n.kind = "StructType"   -> n.Fields
      [] n.kind = "SelectorExpr" -> <<n.X>>
      [] n.kind = "StarExpr"     -> <<n.X>>
      [] n.kind = "MapType"      -> <<n.Key, n.Value>>
      [] n.kind = "ChanType"     -> <<n.Value>>
      [] OTHER -> <<>>

(***************************************************************************)
(* pkg/compiler: the validator.                                            *)
(***************************************************************************)
MsgLoop      == "loops are not supported in Simplicity"
MsgGo        == "goroutines are not supported in Simplicity"
MsgChan      == "channels are not supported in Simplicity"
MsgInterface == "interfaces are not supported in Simplicity"
MsgSlice     == "slices are not supported, use fixed-size arrays"
MsgMap       == "maps are not supported in Simplicity"

\* A slice test that takes every array type for a slice.
isSliceAnyArray(arrType) == arrType.kind = "ArrayType"

\* The test visit makes of an array type node: no length means a slice.
isSlice(arrType) == arrType.Len = Nil

\* goValidator.visit on node n: the diagnostics it appends and the boolean
\* it returns (whether ast.Inspect descends into n's children).
visit(n) ==
    CASE n.kind \in {"ForStmt", "RangeStmt"} ->
             [errors |-> <<MsgLoop>>, descend |-> FALSE]
      [] n.kind = "GoStmt" ->
             [errors |-> <<MsgGo>>, descend |-> FALSE]
      [] n.kind = "ChanType" ->
             [errors |-> <<MsgChan>>, descend |-> FALSE]
      [] n.kind = "InterfaceType" ->
             [errors |-> <<MsgInterface>>, descend |-> FALSE]
      [] n.kind = "ArrayType" ->
             IF isSlice(n)
             THEN [errors |-> <<MsgSlice>>, descend |-> FALSE]
             ELSE [errors |-> <<>>, descend |-> TRUE]
      [] n.kind = "MapType" ->
             [errors |-> <<MsgMap>>, descend |-> FALSE]
      [] n.kind = "CallExpr" ->
             IF n.Fun.kind = "Ident" /\ n.Fun.Name = S_make /\ Len(n.Args) > 0
             THEN CASE n.Args[1].kind = "MapType" ->
                           [errors |-> <<MsgMap>>, descend |-> TRUE]
                    [] n.Args[1].kind = "ChanType" ->
                           [errors |-> <<MsgChan>>, descend |-> TRUE]
                    [] n.Args[1].kind = "ArrayType" /\ isSlice(n.Args[1]) ->
                           [errors |-> <<MsgSlice>>, descend |-> TRUE]
                    [] OTHER -> [errors |-> <<>>, descend |-> TRUE]
             ELSE [errors |-> <<>>, descend |-> TRUE]
      [] n.kind = "TypeSpec" ->
             IF n.Type.kind = "InterfaceType"
             THEN [errors |-> <<MsgInterface>>, descend |-> TRUE]
             ELSE [errors |-> <<>>, descend |-> TRUE]
      [] OTHER -> [errors |-> <<>>, descend |-> TRUE]

\* ast.Inspect(n, validator.visit): the list validator.errors after the
\* walk of n, started with the list errors.
RECURSIVE Inspect(_, _)
RECURSIVE InspectList(_, _)
\* The walk of n once visit(n) returned v.
inspectVisited(n, errors, v) ==
    IF v.descend
    THEN InspectList(Children(n), errors \o v.errors)
    ELSE errors \o v.errors

Inspect(n, errors) == inspectVisited(n, errors, visit(n))

InspectList(nodes, errors) ==
    IF nodes = <<>> THEN errors
    ELSE InspectList(Tail(nodes), Inspect(Head(nodes), errors))

\* strings.Join of plain message strings with "\n"
RECURSIVE JoinLines(_)
JoinLines(msgs) ==
    IF msgs = <<>> THEN <<>>
    ELSE IF Len(msgs) = 1 THEN <<msgs[1]>>
    ELSE <<msgs[1], "\n">> \o JoinLines(Tail(msgs))

\* validateGoCode after the walk.
validationError(errors) ==
    IF Len(errors) > 0
    THEN <<"unsupported Go features detected:\n">> \o JoinLines(errors)
    ELSE NoErr

\* Compiler.validateGoCode: the error it returns, NoErr for nil.
validateGoCode(file) == validationError(Inspect(file, <<>>))

(***************************************************************************)
(* pkg/transpiler: names and machine integers.                             *)
(***************************************************************************)
UpperChars == <<"A", "B", "C", "D", "E", "F", "G", "H", "I", "J", "K", "L", "M",
                "N", "O", "P", "Q", "R", "S", "T", "U", "V", "W", "X", "Y", "Z">>
LowerChars == <<"a", "b", "c", "d", "e", "f", "g", "h", "i", "j", "k", "l", "m",
                "n", "o", "p", "q", "r", "s", "t", "u", "v", "w", "x", "y", "z">>

IsUpper(ch) == \E i \in 1..26 : UpperChars[i] = ch
IsLower(ch) == \E i \in 1..26 : LowerChars[i] = ch
LowerOf(ch) == IF IsUpper(ch)
               THEN LowerChars[CHOOSE i \in 1..26 : UpperChars[i] = ch] ELSE ch
UpperOf(ch) == IF IsLower(ch)
               THEN UpperChars[CHOOSE i \in 1..26 : LowerChars[i] = ch] ELSE ch

\* strings.ToUpper, strings.ToLower
ToUpper(str) == [i \in 1..Len(str) |-> UpperOf(str[i])]
ToLower(str) == [i \in 1..Len(str) |-> LowerOf(str[i])]

\* Transpiler.toSnakeCase: the characters written for position i of name.
snakeAt(name, i) ==
    (IF i > 1 /\ IsUpper(name[i]) THEN <<"_">> ELSE <<>>) \o <<LowerOf(name[i])>>

RECURSIVE snakeFrom(_, _)
snakeFrom(name, i) ==
    IF i > Len(name) THEN <<>> ELSE snakeAt(name, i) \o snakeFrom(name, i + 1)

toSnakeCase(name) == IF name = <<>> THEN name ELSE snakeFrom(name, 1)

\* An int64 result of +, - or *: two's complement wrap-around.
WrapInt(x) == ((x + IntCutoff) % (2 * IntCutoff)) - IntCutoff

\* Go's integer division, which truncates toward zero (b # 0).
Abs(x) == IF x < 0 THEN 0 - x ELSE x
TruncDiv(a, b) ==
    LET q == Abs(a) \div Abs(b)
    IN WrapInt(IF (a < 0) = (b < 0) THEN q ELSE 0 - q)

\* strconv.FormatBool
FormatBool(b) == IF b THEN S_true ELSE S_false

(***************************************************************************)
(* pkg/transpiler: the expression evaluator.  Each returns (string, error) *)
(***************************************************************************)
evaluateCallExpr(expr) == Ok(S_true)

\* The token.QUO case of evaluateBinaryExpr; Nil when it does not return.
foldQuo(leftVal, rightVal) ==
    IF rightVal # 0
    THEN Ok(FormatInt(TruncDiv(leftVal, rightVal)))
    ELSE Nil

\* The switch of evaluateBinaryExpr on two parsed operands; Nil when no
\* case returns.
foldBinary(op, leftVal, rightVal) ==
    CASE op = "+"  -> Ok(FormatInt(WrapInt(leftVal + rightVal)))
      [] op = "-"  -> Ok(FormatInt(WrapInt(leftVal - rightVal)))
      [] op = "*"  -> Ok(FormatInt(WrapInt(leftVal * rightVal)))
      [] op = "/"  -> foldQuo(leftVal, rightVal)
      [] op = ">"  -> Ok(FormatBool(leftVal > rightVal))
      [] op = "<"  -> Ok(FormatBool(leftVal < rightVal))
      [] op = ">=" -> Ok(FormatBool(leftVal >= rightVal))
      [] op = "<=" -> Ok(FormatBool(leftVal <= rightVal))
      [] op = "==" -> Ok(FormatBool(leftVal = rightVal))
      [] OTHER -> Nil

\* The end of evaluateBinaryExpr: the value a case returned, else the
\* default "true".
foldOrDefault(r) == IF r = Nil THEN Ok(S_true) ELSE r

\* evaluateBinaryExpr once both operand strings went through ParseInt.
foldParsed(op, l, r) ==
    IF l.err = "" /\ r.err = ""
    THEN foldOrDefault(foldBinary(op, l.val, r.val))
    ELSE Ok(S_true)

\* evaluateBinaryExpr once both sides are evaluated.
foldOperands(op, left, right) ==
    IF left.err = NoErr /\ right.err = NoErr
    THEN foldParsed(op, ParseInt(left.val), ParseInt(right.val))
    ELSE Ok(S_true)

\* The token.NOT case of evaluateExpression once the operand is evaluated.
notOperand(operand) ==
    IF operand.err # NoErr THEN Fail(operand.err)
    ELSE IF operand.val = S_true THEN Ok(S_false)
    ELSE Ok(S_true)

RECURSIVE evaluateExpression(_)
RECURSIVE evaluateBinaryExpr(_)

evaluateExpression(expr) ==
    CASE expr.kind = "BasicLit"   -> Ok(expr.Value)
      [] expr.kind = "BinaryExpr" -> evaluateBinaryExpr(expr)
      [] expr.kind = "CallExpr"   -> evaluateCallExpr(expr)
      [] expr.kind = "UnaryExpr"  ->
             IF expr.Op = "!"
             THEN notOperand(evaluateExpression(expr.X))
             ELSE Ok(S_true)
      [] expr.kind = "Ident"      -> Ok(S_true)
      [] OTHER -> Ok(S_true)

evaluateBinaryExpr(expr) ==
    foldOperands(expr.Op, evaluateExpression(expr.X), evaluateExpression(expr.Y))

extractIdentifier(expr) == IF expr.kind = "Ident" THEN expr.Name ELSE <<>>

(***************************************************************************)
(* pkg/transpiler: analysis.  A transpiler's state is a record             *)
(* [witnessValues, constants, functions, output]; an analysis operation    *)
(* returns the state it leaves, as t, with its error, as err.              *)
(***************************************************************************)
WitnessValue(name, type, value) == [Name |-> name, Type |-> type, Value |-> value]
Constant(name, type, value)     == [Name |-> name, Type |-> type, Value |-> value]
Parameter(name, type)           == [Name |-> name, Type |-> type]

Done(t)        == [t |-> t, err |-> NoErr]
Failed(t, err) == [t |-> t, err |-> err]

\* typ for a value specification: "u64" unless a type is written.
specType(valueSpec) ==
    IF valueSpec.Type # Nil THEN MapGoType(valueSpec.Type) ELSE Ok(S_u64)

appendWitness(t, name, type, value) ==
    [t EXCEPT !.witnessValues = Append(@, WitnessValue(toSnakeCase(name), type, value))]

\* A record of a constant made in the list of witnesses.
appendConstantAsWitness(t, name, type, value) ==
    [t EXCEPT !.witnessValues = Append(@, Constant(ToUpper(toSnakeCase(name)), type, value))]

appendConstant(t, name, type, value) ==
    [t EXCEPT !.constants = Append(@, Constant(ToUpper(toSnakeCase(name)), type, value))]

RECURSIVE mainValueSpecNames(_, _, _)
\* One name of a var specification once its type is mapped.
mainNameTyped(valueSpec, i, t, value, mapped) ==
    IF mapped.err # NoErr THEN Failed(t, mapped.err)
    ELSE mainValueSpecNames(valueSpec, i + 1,
             appendWitness(t, valueSpec.Names[i], mapped.val, value))

\* One name of a var specification once its value is evaluated.
mainNameValued(valueSpec, i, t, value) ==
    IF value.err # NoErr
    THEN Failed(t, <<"failed to evaluate expression for ">>
                   \o valueSpec.Names[i] \o <<": ">> \o value.err)
    ELSE mainNameTyped(valueSpec, i, t, value.val, specType(valueSpec))

\* The loop over valueSpec.Names in analyzeMainFunction, from index i
\* (counted from 1).
mainValueSpecNames(valueSpec, i, t) ==
    IF i > Len(valueSpec.Names) THEN Done(t)
    ELSE IF i <= Len(valueSpec.Values)
    THEN mainNameValued(valueSpec, i, t, evaluateExpression(valueSpec.Values[i]))
    ELSE mainValueSpecNames(valueSpec, i + 1, t)

\* The loop over genDecl.Specs in analyzeMainFunction.
RECURSIVE mainSpecs(_, _)
mainSpecsRest(rest, r) == IF r.err # NoErr THEN r ELSE mainSpecs(rest, r.t)

mainSpecs(specs, t) ==
    IF specs = <<>> THEN Done(t)
    ELSE IF Head(specs).kind = "ValueSpec"
    THEN mainSpecsRest(Tail(specs), mainValueSpecNames(Head(specs), 1, t))
    ELSE mainSpecs(Tail(specs), t)

\* The *ast.AssignStmt case once the right-hand side is evaluated.
mainAssigned(ident, t, value) ==
    IF value.err # NoErr
    THEN Failed(t, <<"failed to evaluate assignment for ">>
                   \o ident.Name \o <<": ">> \o value.err)
    ELSE Done(appendWitness(t, ident.Name, S_auto, value.val))

\* One statement of the entry function's body, by the switch of
\* analyzeMainFunction.
mainStmt(s, t) ==
    CASE s.kind = "DeclStmt" ->
             IF s.Decl.kind = "GenDecl" /\ s.Decl.Tok = "var"
             THEN mainSpecs(s.Decl.Specs, t)
             ELSE Done(t)
      [] s.kind = "AssignStmt" ->
             IF Len(s.Lhs) = 1 /\ Len(s.Rhs) = 1 /\ s.Lhs[1].kind = "Ident"
             THEN mainAssigned(s.Lhs[1], t, evaluateExpression(s.Rhs[1]))
             ELSE Done(t)
      [] OTHER -> Done(t)

RECURSIVE mainStmts(_, _)
mainStmtsRest(rest, r) == IF r.err # NoErr THEN r ELSE mainStmts(rest, r.t)

mainStmts(stmts, t) ==
    IF stmts = <<>> THEN Done(t)
    ELSE mainStmtsRest(Tail(stmts), mainStmt(Head(stmts), t))

\* funcDecl.Body is nil for a function declared without a body, and
\* funcDecl.Body.List then panics.
analyzeMainFunction(funcDecl, t) ==
    IF funcDecl.Body = Nil THEN Failed(t, Panic)
    ELSE mainStmts(funcDecl.Body.List, t)

\* The body text of the token.GTR case of analyzeFunctionBody.
matchBody(left) ==
    <<"    match ">> \o toSnakeCase(left)
    \o <<" {\n", "        0 => false,\n", "        _ => true,\n", "    }">>

\* Whether the statement makes analyzeFunctionBody return, and what.
returnsMatch(stmt) ==
    /\ stmt.kind = "ReturnStmt"
    /\ Len(stmt.Results) = 1
    /\ stmt.Results[1].kind = "BinaryExpr"
    /\ extractIdentifier(stmt.Results[1].X) # <<>>
    /\ stmt.Results[1].Op = ">"

returnsIdent(stmt) ==
    /\ stmt.kind = "ReturnStmt"
    /\ Len(stmt.Results) = 1
    /\ stmt.Results[1].kind = "Ident"

\* The loop of analyzeFunctionBody over block.List.
RECURSIVE analyzeFunctionBodyFrom(_)
analyzeFunctionBodyFrom(stmts) ==
    IF stmts = <<>> THEN Ok(S_true)
    ELSE IF returnsMatch(Head(stmts))
    THEN Ok(matchBody(extractIdentifier(Head(stmts).Results[1].X)))
    ELSE IF returnsIdent(Head(stmts))
    THEN Ok(toSnakeCase(Head(stmts).Results[1].Name))
    ELSE analyzeFunctionBodyFrom(Tail(stmts))

\* block is nil for a function declared without a body, and block.List
\* then panics.
analyzeFunctionBody(block) ==
    IF block = Nil THEN Fail(Panic)
    ELSE analyzeFunctionBodyFrom(block.List)

\* A field that adds one parameter however many names it declares.
fieldParamsFirstOnly(names, type) ==
    IF names = <<>> THEN <<>> ELSE <<Parameter(toSnakeCase(names[1]), type)>>

\* The parameters one field adds: one per name.
fieldParams(names, type) ==
    [i \in 1..Len(names) |-> Parameter(toSnakeCase(names[i]), type)]

\* The parameter loop of analyzeFunction: (parameters, error).
RECURSIVE functionParams(_, _)
paramsMapped(fields, acc, mapped) ==
    IF mapped.err # NoErr THEN [val |-> acc, err |-> mapped.err]
    ELSE functionParams(Tail(fields), acc \o fieldParams(Head(fields).Names, mapped.val))

functionParams(fields, acc) ==
    IF fields = <<>> THEN [val |-> acc, err |-> NoErr]
    ELSE paramsMapped(fields, acc, MapGoType(Head(fields).Type))

\* The return type of analyzeFunction: "" when none is declared.
returnType(funcDecl) ==
    IF Len(funcDecl.Results) > 0
    THEN MapGoType(funcDecl.Results[1].Type)
    ELSE Ok(<<>>)

appendFunction(t, name, params, rt, body) ==
    [t EXCEPT !.functions = Append(@, [Name       |-> toSnakeCase(name),
                                       Parameters |-> params,
                                       ReturnType |-> rt,
                                       Body       |-> body])]

\* analyzeFunction once the body is analyzed.
functionBodied(funcDecl, t, params, rt, body) ==
    IF body.err # NoErr THEN Failed(t, body.err)
    ELSE Done(appendFunction(t, funcDecl.Name, params, rt, body.val))

\* analyzeFunction once the return type is mapped.
functionTyped(funcDecl, t, params, rt) ==
    IF rt.err # NoErr THEN Failed(t, rt.err)
    ELSE functionBodied(funcDecl, t, params, rt.val, analyzeFunctionBody(funcDecl.Body))

\* analyzeFunction once the parameters are mapped.
functionParamed(funcDecl, t, params) ==
    IF params.err # NoErr THEN Failed(t, params.err)
    ELSE functionTyped(funcDecl, t, params.val, returnType(funcDecl))

analyzeFunction(funcDecl, t) ==
    functionParamed(funcDecl, t, functionParams(funcDecl.Params, <<>>))

RECURSIVE constValueSpecNames(_, _, _)
\* One name of a const specification once its type is mapped.
constNameTyped(valueSpec, i, t, value, mapped) ==
    IF mapped.err # NoErr THEN Failed(t, mapped.err)
    ELSE constValueSpecNames(valueSpec, i + 1,
             appendConstant(t, valueSpec.Names[i], mapped.val, value))

\* One name of a const specification once its value is evaluated.
constNameValued(valueSpec, i, t, value) ==
    IF value.err # NoErr THEN Failed(t, value.err)
    ELSE constNameTyped(valueSpec, i, t, value.val, specType(valueSpec))

\* The loop over valueSpec.Names in analyzeConstants, from index i.
constValueSpecNames(valueSpec, i, t) ==
    IF i > Len(valueSpec.Names) THEN Done(t)
    ELSE IF i <= Len(valueSpec.Values)
    THEN constNameValued(valueSpec, i, t, evaluateExpression(valueSpec.Values[i]))
    ELSE constValueSpecNames(valueSpec, i + 1, t)

RECURSIVE analyzeConstantsFrom(_, _)
constSpecsRest(rest, r) == IF r.err # NoErr THEN r ELSE analyzeConstantsFrom(rest, r.t)

analyzeConstantsFrom(specs, t) ==
    IF specs = <<>> THEN Done(t)
    ELSE IF Head(specs).kind = "ValueSpec"
    THEN constSpecsRest(Tail(specs), constValueSpecNames(Head(specs), 1, t))
    ELSE analyzeConstantsFrom(Tail(specs), t)

analyzeConstants(genDecl, t) == analyzeConstantsFrom(genDecl.Specs, t)

\* One iteration of the loop of analyzeCode, on the declaration decl.
analyzeDecl(decl, t) ==
    CASE decl.kind = "FuncDecl" ->
             IF decl.Name = S_main
             THEN analyzeMainFunction(decl, t)
             ELSE analyzeFunction(decl, t)
      [] decl.kind = "GenDecl" ->
             IF decl.Tok = "const"
             THEN analyzeConstants(decl, t)
             ELSE Done(t)
      [] OTHER -> Done(t)

\* analyzeCode, from the declaration at index i.
RECURSIVE analyzeCodeFrom(_, _, _)
analyzeCodeRest(file, i, r) ==
    IF r.err # NoErr THEN r ELSE analyzeCodeFrom(file, i + 1, r.t)

analyzeCodeFrom(file, i, t) ==
    IF i > Len(file.Decls) THEN Done(t)
    ELSE analyzeCodeRest(file, i, analyzeDecl(file.Decls[i], t))

analyzeCode(file, t) == analyzeCodeFrom(file, 1, t)

(***************************************************************************)
(* pkg/transpiler: generation.  The output buffer is one string; each      *)
(* operation here takes the buffer and returns it extended.                *)
(***************************************************************************)
writeLine(out, line) == out \o line \o <<"\n">>

\* The type generateCode emits for a witness.
witnessTypeOf(witness) ==
    IF witness.Type = S_auto
    THEN IF witness.Value = S_true \/ witness.Value = S_false THEN S_bool
         ELSE IF ParseInt(witness.Value).err = "" THEN S_u64
         ELSE S_bool
    ELSE witness.Type

witnessLine(witness) ==
    <<"    const ">> \o ToUpper(witness.Name) \o <<": ">> \o witnessTypeOf(witness)
    \o <<" = ">> \o witness.Value \o <<";">>

constantLine(constant) ==
    <<"    const ">> \o constant.Name \o <<": ">> \o constant.Type
    \o <<" = ">> \o constant.Value \o <<";">>

RECURSIVE writeWitnesses(_, _)
writeWitnesses(out, witnesses) ==
    IF witnesses = <<>> THEN out
    ELSE writeWitnesses(writeLine(out, witnessLine(Head(witnesses))), Tail(witnesses))

RECURSIVE writeConstants(_, _)
writeConstants(out, constants) ==
    IF constants = <<>> THEN out
    ELSE writeConstants(writeLine(out, constantLine(Head(constants))), Tail(constants))

paramText(param) == param.Name \o <<": ">> \o param.Type

generateFunction(out, function) ==
    LET params == [i \in 1..Len(function.Parameters) |->
                      paramText(function.Parameters[i])]
        sig    == <<"(">> \o Join(params, <<",", " ">>) \o <<")">>
                  \o (IF function.ReturnType # <<>>
                      THEN <<" -> ">> \o function.ReturnType ELSE <<>>)
        l1 == writeLine(out, <<"fn ">> \o function.Name \o sig \o <<" {">>)
        l2 == writeLine(l1, <<"    ">> \o function.Body)
        l3 == writeLine(l2, <<"}">>)
    IN writeLine(l3, <<>>)

RECURSIVE writeFunctions(_, _)
writeFunctions(out, functions) ==
    IF functions = <<>> THEN out
    ELSE writeFunctions(generateFunction(out, Head(functions)), Tail(functions))

\* strings.Contains(str, sub)
Contains(str, sub) ==
    \E i \in 1..(Len(str) - Len(sub) + 1) : SubSeq(str, i, i + Len(sub) - 1) = sub

S_result == <<"r", "e", "s", "u", "l", "t">>

witnessRef(witness) == <<"witness::">> \o ToUpper(witness.Name)

\* A search that keeps the last witness whose name contains "result".
RECURSIVE findResultWitnessLast(_)
findResultWitnessLast(witnesses) ==
    IF witnesses = <<>> THEN <<>>
    ELSE IF Contains(ToLower(witnesses[Len(witnesses)].Name), S_result)
    THEN witnessRef(witnesses[Len(witnesses)])
    ELSE findResultWitnessLast(SubSeq(witnesses, 1, Len(witnesses) - 1))

\* The first loop of generateMainFunction: resultWitness, "" when none.
RECURSIVE findResultWitness(_)
findResultWitness(witnesses) ==
    IF witnesses = <<>> THEN <<>>
    ELSE IF Contains(ToLower(Head(witnesses).Name), S_result)
    THEN witnessRef(Head(witnesses))
    ELSE findResultWitness(Tail(witnesses))

\* Whether the second loop of generateMainFunction takes the witness for
\* a boolean.
countsAsBool(witness) ==
    \/ witness.Type = S_bool
    \/ witness.Type = S_auto /\ (witness.Value = S_true \/ witness.Value = S_false)

\* The second loop of generateMainFunction: args.
RECURSIVE boolArgs(_, _, _)
boolArgs(witnesses, paramCount, args) ==
    IF witnesses = <<>> THEN args
    ELSE IF countsAsBool(Head(witnesses)) /\ Len(args) < paramCount
    THEN boolArgs(Tail(witnesses), paramCount, Append(args, witnessRef(Head(witnesses))))
    ELSE boolArgs(Tail(witnesses), paramCount, args)

\* The assertion line for a call of mainFunc with the collected args.
callAssertion(mainFunc, args) ==
    IF Len(args) = Len(mainFunc.Parameters)
    THEN <<"    assert!(">> \o mainFunc.Name \o <<"(">>
         \o Join(args, <<",", " ">>) \o <<"));">>
    ELSE <<"    assert!(true);">>

\* The assertion line when no result witness was found.
logicAssertion(t) ==
    IF Len(t.functions) > 0
    THEN callAssertion(t.functions[Len(t.functions)],
                       boolArgs(t.witnessValues,
                                Len(t.functions[Len(t.functions)].Parameters), <<>>))
    ELSE <<"    assert!(true);">>

\* The line generateMainFunction writes between "fn main() {" and "}".
mainAssertion(resultWitness, t) ==
    IF resultWitness # <<>>
    THEN <<"    assert!(">> \o resultWitness \o <<");">>
    ELSE logicAssertion(t)

generateMainFunction(out, t) ==
    writeLine(writeLine(writeLine(out, <<"fn main() {">>),
                        mainAssertion(findResultWitness(t.witnessValues), t)),
              <<"}">>)

\* generateCode: the transpiler state with the text written to t.output.
generateCode(t) ==
    LET o1 == writeLine(t.output, <<"mod witness {">>)
        o2 == writeWitnesses(o1, t.witnessValues)
        o3 == writeLine(o2, <<"}">>)
        o4 == writeLine(o3, <<"mod param {">>)
        o5 == writeConstants(o4, t.constants)
        o6 == writeLine(o5, <<"}">>)
        o7 == writeLine(o6, <<>>)
        o8 == writeFunctions(o7, t.functions)
    IN [t EXCEPT !.output = generateMainFunction(o8, t)]

(***************************************************************************)
(* pkg/compiler and pkg/transpiler: the calls, as sequential code.         *)
(***************************************************************************)
\* A result returned to the caller of Compile: (text, err).
Returned(text, err) == [done |-> TRUE, text |-> text, err |-> err]
Pending == [done |-> FALSE, text |-> <<>>, err |-> NoErr]

\* The state of a Transpiler as transpiler.New returns it.
NewTranspilerState ==
    [witnessValues |-> <<>>, constants |-> <<>>, functions |-> <<>>, output |-> <<>>]

\* A start of ToSimplicityHL that leaves the recorded witnesses in place.
resetStateKeepWitnesses(t) ==
    [t EXCEPT !.output = <<>>, !.constants = <<>>, !.functions = <<>>]

\* The first four statements of ToSimplicityHL.
resetState(t) ==
    [t EXCEPT !.output = <<>>, !.witnessValues = <<>>,
              !.constants = <<>>, !.functions = <<>>]

\* A failure return of ToSimplicityHL that hands back what would be
\* generated from the records made before the failure.
analysisFailedPartial(t, err) ==
    Returned(generateCode(t).output, Errorf("code analysis failed: ", err))

\* What ToSimplicityHL returns when analyzeCode fails with err, the
\* transpiler being left in state t.
analysisFailed(t, err) ==
    Returned(<<>>, Errorf("code analysis failed: ", err))

\* How ToSimplicityHL ends when analyzeCode does not return nil: with the
\* wrapped error, or unwound by the panic.
analysisEnded(t, err) ==
    IF err = Panic THEN Returned(<<>>, Panic) ELSE analysisFailed(t, err)

\* The success return of ToSimplicityHL: g is the state after generateCode.
generated(g) == [t |-> g, ret |-> Returned(g.output, NoErr)]

\* ToSimplicityHL once analyzeCode returned a.
analyzed(a) ==
    IF a.err # NoErr
    THEN [t |-> a.t, ret |-> analysisEnded(a.t, a.err)]
    ELSE generated(generateCode(a.t))

\* ToSimplicityHL on a transpiler in state t: the state it leaves and what
\* it returns.
ToSimplicityHL(file, t) == analyzed(analyzeCode(file, resetState(t)))

\* A Compile that goes on to the target switch whatever validation found.
compileDispatchIgnoreValidation(verr, target) ==
    CASE target = "simplicityhl" -> [call |-> TRUE, ret |-> Pending]
      [] target = "simplicity" ->
             [call |-> FALSE,
              ret |-> Returned(<<>>,
                        <<"direct Simplicity compilation not yet implemented">>)]
      [] OTHER ->
             [call |-> FALSE,
              ret |-> Returned(<<>>, <<"unsupported target: ", target>>)]

\* Compile after validateGoCode returned verr: whether it calls
\* ToSimplicityHL, and what it returns when it does not.
compileDispatch(verr, target) ==
    IF verr # NoErr
    THEN [call |-> FALSE,
          ret |-> Returned(<<>>, Errorf("Go code validation failed: ", verr))]
    ELSE CASE target = "simplicityhl" -> [call |-> TRUE, ret |-> Pending]
           [] target = "simplicity" ->
                  [call |-> FALSE,
                   ret |-> Returned(<<>>,
                             <<"direct Simplicity compilation not yet implemented">>)]
           [] OTHER ->
                  [call |-> FALSE,
                   ret |-> Returned(<<>>, <<"unsupported target: ", target>>)]

\* Compile after the dispatch d.
dispatched(d, file, t) == IF d.call THEN ToSimplicityHL(file, t).ret ELSE d.ret

\* Compile(source) on a compiler configured for target whose transpiler is
\* in state t, run from start to end with nothing else running: what it
\* returns.  (The tree is the parse of the source.)
Compile(file, target, t) ==
    dispatched(compileDispatch(validateGoCode(file), target), file, t)

(***************************************************************************)
(* pkg/types: TypeMapper.GetBitSize.  It returns an int; the value is      *)
(* carried as val, and err is NoErr unless the call panics.                *)
(***************************************************************************)
S_u1   == <<"u", "1">>
S_u2   == <<"u", "2">>
S_u4   == <<"u", "4">>
S_u128 == <<"u", "1", "2", "8">>

\* The run-time panic of a slice expression whose bounds are out of range.
PanicBounds == <<"panic: runtime error: slice bounds out of range">>

\* strings.HasPrefix
HasPrefix(s, prefix) ==
    Len(s) >= Len(prefix) /\ SubSeq(s, 1, Len(prefix)) = prefix

\* The positions of the separator sep in s.
sepPositions(s, sep) == { i \in 1..Len(s) : s[i] = sep }

\* The n-th of the positions P of s, counting the start of s as the 0-th
\* and its end as the one after the last.
sepAt(s, P, n) ==
    IF n = 0 THEN 0
    ELSE IF n > Cardinality(P) THEN Len(s) + 1
    ELSE CHOOSE i \in P : Cardinality({ j \in P : j <= i }) = n

\* The parts of s between the positions P.
splitAt(s, P) ==
    [k \in 1..(Cardinality(P) + 1) |->
        SubSeq(s, sepAt(s, P, k - 1) + 1, sepAt(s, P, k) - 1)]

\* strings.Split(s, sep) for a separator of one character: the parts
\* between its occurrences, one more than there are occurrences.
Split(s, sep) == splitAt(s, sepPositions(s, sep))

IsSpace(c) == c \in {" ", "\t", "\n", "\r"}

RECURSIVE trimLeft(_)
trimLeft(s) == IF s # <<>> /\ IsSpace(Head(s)) THEN trimLeft(Tail(s)) ELSE s

RECURSIVE trimRight(_)
trimRight(s) ==
    IF s # <<>> /\ IsSpace(s[Len(s)]) THEN trimRight(SubSeq(s, 1, Len(s) - 1)) ELSE s

\* strings.TrimSpace
TrimSpace(s) == trimRight(trimLeft(s))

\* The slice expression s[lo:hi] of a string, which panics when the bounds
\* are not 0 <= lo <= hi <= len(s).
sliceOf(s, lo, hi) ==
    IF 0 <= lo /\ lo <= hi /\ hi <= Len(s)
    THEN Ok(SubSeq(s, lo + 1, hi))
    ELSE Fail(PanicBounds)

\* The cases of the switch of GetBitSize that name a type.
BitSizeCases ==
    { <<S_bool, 1>>, <<S_u1, 1>>, <<S_u2, 2>>, <<S_u4, 4>>, <<S_u8, 8>>,
      <<S_u16, 16>>, <<S_u32, 32>>, <<S_u64, 64>>, <<S_u128, 128>>,
      <<S_u256, 256>>, <<S_unit, 0>> }

hasBitSizeCase(s) == \E c \in BitSizeCases : c[1] = s
bitSizeCase(s)    == (CHOOSE c \in BitSizeCases : c[1] = s)[2]

\* The test of the default case taken on a prefix alone.
isArrayShapedPrefixOnly(s) == HasPrefix(s, <<"[">>)

\* The test of the default case: the string looks like "[elem; count]".
isArrayShaped(s) == HasPrefix(s, <<"[">>) /\ Contains(s, <<";">>)

RECURSIVE GetBitSize(_)

\* tm.GetBitSize(elemType) * count.  The counts read here stay below
\* 2^IntBits and the widths below 2^9, so the product is far from the end
\* of the int range and is computed exactly.
bitSizeTimes(elem, count) ==
    IF elem.err # NoErr THEN elem ELSE Ok(elem.val * count)

\* The default case once the count went through strconv.Atoi.
bitSizeCounted(elemType, count) ==
    IF count.err = "" THEN bitSizeTimes(GetBitSize(elemType), count.val) ELSE Ok(0)

\* The default case once the text between the brackets is split on ";".
bitSizeParts(parts) ==
    IF Len(parts) = 2
    THEN bitSizeCounted(TrimSpace(parts[1]), ParseInt(TrimSpace(parts[2])))
    ELSE Ok(0)

\* The default case once the brackets are stripped.
bitSizeInner(inner) ==
    IF inner.err # NoErr THEN inner ELSE bitSizeParts(Split(inner.val, ";"))

\* The default case of the switch of GetBitSize.
bitSizeDefault(s) ==
    IF isArrayShaped(s) THEN bitSizeInner(sliceOf(s, 1, Len(s) - 1)) ELSE Ok(0)

GetBitSize(simplicityType) ==
    IF hasBitSizeCase(simplicityType)
    THEN Ok(bitSizeCase(simplicityType))
    ELSE bitSizeDefault(simplicityType)

\* A caller maps a type expression and asks for the bit size of the
\* mapped type string.
bitSizeOfMapped(mapped) ==
    [mapped |-> mapped,
     bits   |-> IF mapped.err = NoErr THEN GetBitSize(mapped.val) ELSE Fail(mapped.err)]

(***************************************************************************)
(* Inputs: the trees and type expressions the operations are run on.       *)
(***************************************************************************)
n_x           == <<"x">>
n_y           == <<"y">>
n_a           == <<"a">>
n_b           == <<"b">>
n_k           == <<"k">>
n_h           == <<"h">>
n_p           == <<"p">>
n_ok          == <<"o", "k">>
n_amount      == <<"a", "m", "o", "u", "n", "t">>
n_amountValid == <<"a", "m", "o", "u", "n", "t", "V", "a", "l", "i", "d">>
n_MinAmount   == <<"M", "i", "n", "A", "m", "o", "u", "n", "t">>
n_Validate    == <<"V", "a", "l", "i", "d", "a", "t", "e">>
n_Check       == <<"C", "h", "e", "c", "k">>
n_Reader      == <<"R", "e", "a", "d", "e", "r">>
n_pkg         == <<"p", "k", "g">>
n_T           == <<"T">>
n_N           == <<"N">>
n_int         == <<"i", "n", "t">>
n_Foo         == <<"F", "o", "o">>

T_bool   == Ident(S_bool)
T_uint8  == Ident(S_uint8)
T_uint64 == Ident(S_uint64)
T_byte   == Ident(S_byte)
T_int    == Ident(n_int)
T_pkgT   == SelectorExpr(Ident(n_pkg), n_T)
T_ptr    == StarExpr(T_uint8)
T_arr2   == ArrayType(IntLit(<<"2">>), T_byte)
T_slice  == ArrayType(Nil, T_byte)
T_map    == MapType(T_int, T_int)
T_chan   == ChanType(T_int)

Lit(n) == IntLit(FormatInt(n))

VarStmt(names, type, values) ==
    DeclStmt(GenDecl("var", <<ValueSpec(names, type, values)>>))
Define(name, expr) == AssignStmt(<<Ident(name)>>, ":=", <<expr>>)
Call(name, args)   == CallExpr(Ident(name), args)

\* Statements of an entry function body.
MainStmtPool ==
    { VarStmt(<<n_amount>>, T_uint64, <<IntLit(<<"1", "0", "0">>)>>),
      VarStmt(<<n_x, n_y>>, T_uint8, <<Lit(1), Lit(2)>>),
      VarStmt(<<n_k>>, Nil, <<BinaryExpr(Lit(5), "/", Lit(0))>>),
      VarStmt(<<n_h>>, T_pkgT, <<Lit(1)>>),
      Define(n_amountValid, BinaryExpr(Ident(n_amount), ">", Lit(0))),
      Define(S_result, Call(n_Validate, <<Ident(n_amountValid)>>)),
      IfStmt(UnaryExpr("!", Ident(S_result)),
             BlockStmt(<<Define(n_y, Lit(1)), ReturnStmt(<<>>)>>), Nil),
      ForStmt(Nil, BlockStmt(<<Define(n_y, Lit(1))>>)) }

RECURSIVE SeqsUpTo(_, _)
\* The sequences of at most n elements of S.
SeqsUpTo(S, n) ==
    IF n = 0 THEN {<<>>}
    ELSE {<<>>} \cup {<<e>> \o q : e \in S, q \in SeqsUpTo(S, n - 1)}

MainDecl(stmts) == FuncDecl(S_main, <<>>, <<>>, BlockStmt(stmts))

\* Function declarations: none or one.
FuncPool ==
    { <<>>,
      <<FuncDecl(n_Validate, <<Field(<<n_amountValid>>, T_bool)>>,
                 <<Field(<<>>, T_bool)>>,
                 BlockStmt(<<ReturnStmt(<<Ident(n_amountValid)>>)>>))>>,
      <<FuncDecl(n_Check, <<Field(<<n_x>>, T_uint64)>>,
                 <<Field(<<>>, T_bool)>>,
                 BlockStmt(<<ReturnStmt(<<BinaryExpr(Ident(n_x), ">", Lit(0))>>)>>))>>,
      <<FuncDecl(n_Check, <<Field(<<n_a>>, T_pkgT)>>,
                 <<Field(<<>>, T_bool)>>,
                 BlockStmt(<<ReturnStmt(<<Ident(n_a)>>)>>))>>,
      <<FuncDecl(n_Check, <<Field(<<n_a>>, T_bool)>>,
                 <<Field(<<>>, T_ptr)>>,
                 BlockStmt(<<ReturnStmt(<<Ident(n_a)>>)>>))>>,
      <<FuncDecl(n_Check, <<Field(<<n_x>>, T_uint64)>>, <<Field(<<>>, T_bool)>>, Nil)>> }

\* Top-level general declarations: none or one.
GenPool ==
    { <<>>,
      <<GenDecl("const", <<ValueSpec(<<n_MinAmount>>, T_uint64,
                                     <<IntLit(<<"1", "0", "0">>)>>)>>)>>,
      <<GenDecl("const", <<ValueSpec(<<n_k>>, T_pkgT, <<Lit(1)>>)>>)>>,
      <<GenDecl("type", <<TypeSpec(n_Reader, InterfaceType)>>)>> }


F_Validate ==
    FuncDecl(n_Validate, <<Field(<<n_amountValid>>, T_bool)>>, <<Field(<<>>, T_bool)>>,
             BlockStmt(<<ReturnStmt(<<Ident(n_amountValid)>>)>>))
F_Check ==
    FuncDecl(n_Check, <<Field(<<n_x>>, T_uint64)>>, <<Field(<<>>, T_bool)>>,
             BlockStmt(<<ReturnStmt(<<BinaryExpr(Ident(n_x), ">", Lit(0))>>)>>))
F_BadParam ==
    FuncDecl(n_Check, <<Field(<<n_a>>, T_pkgT)>>, <<Field(<<>>, T_bool)>>,
             BlockStmt(<<ReturnStmt(<<Ident(n_a)>>)>>))
D_MinAmount ==
    GenDecl("const", <<ValueSpec(<<n_MinAmount>>, T_uint64,
                                 <<IntLit(<<"1", "0", "0">>)>>)>>)

\* The trees handed to Compile when the calls of several compilers are
\* followed together.
SharedPrograms ==
    { File(<<>>),
      File(<<F_Validate,
             MainDecl(<<VarStmt(<<n_amount>>, T_uint64, <<IntLit(<<"1", "0", "0">>)>>),
                        Define(n_amountValid, BinaryExpr(Ident(n_amount), ">", Lit(0))),
                        Define(S_result, Call(n_Validate, <<Ident(n_amountValid)>>))>>)>>),
      File(<<D_MinAmount,
             MainDecl(<<VarStmt(<<n_amount>>, T_uint64, <<IntLit(<<"5", "0">>)>>)>>)>>),
      File(<<D_MinAmount, F_Check, MainDecl(<<Define(n_ok, Ident(S_true))>>)>>),
      File(<<MainDecl(<<ForStmt(Nil, BlockStmt(<<Define(n_y, Lit(1))>>))>>)>>),
      File(<<MainDecl(<<Define(n_ok, UnaryExpr("!", Ident(S_true))),
                        VarStmt(<<n_h>>, T_pkgT, <<Lit(1)>>)>>)>>),
      File(<<MainDecl(<<Define(n_b, BinaryExpr(Lit(4), "+", Lit(2)))>>),
             D_MinAmount, F_BadParam>>),
      File(<<MainDecl(<<Define(n_ok, Ident(S_true))>>),
             FuncDecl(n_Check, <<Field(<<n_x>>, T_uint64)>>, <<Field(<<>>, T_bool)>>, Nil)>>) }

\* The trees handed to Compile when one call is followed from start to end:
\* an entry function after at most one other declaration, and the trees
\* above.
Programs ==
    { File(g \o <<MainDecl(body)>>) :
          g \in GenPool, body \in SeqsUpTo(MainStmtPool, MaxStmts) }
    \cup { File(f \o <<MainDecl(body)>>) :
          f \in FuncPool, body \in SeqsUpTo(MainStmtPool, MaxStmts) }
    \cup SharedPrograms

\* Statements of the entry function bodies handed to ToSimplicityHL on its
\* own: declarations with and without initializer, short-form and plain
\* assignments, nested and other statements.
BodyStmtPool ==
    { VarStmt(<<n_amount>>, T_uint64, <<IntLit(<<"1", "0", "0">>)>>),
      VarStmt(<<n_x, n_y>>, T_uint8, <<Lit(1), Lit(2)>>),
      VarStmt(<<n_k>>, Nil, <<BinaryExpr(Lit(40), "+", Lit(2))>>),
      VarStmt(<<n_a, n_b>>, T_bool, <<>>),
      VarStmt(<<n_p>>, Ident(S_auto), <<Lit(5)>>),
      DeclStmt(GenDecl("const", <<ValueSpec(<<n_k>>, Nil, <<Lit(5)>>)>>)),
      Define(n_amountValid, BinaryExpr(Ident(n_amount), ">", Lit(0))),
      AssignStmt(<<Ident(n_a), Ident(n_b)>>, ":=", <<Lit(1), Lit(2)>>),
      AssignStmt(<<Ident(n_x)>>, "=", <<Lit(2)>>),
      ExprStmt(Call(n_Validate, <<Ident(n_ok)>>)),
      IfStmt(UnaryExpr("!", Ident(S_result)),
             BlockStmt(<<Define(n_y, Lit(1)), ReturnStmt(<<>>)>>), Nil) }

\* The top-level declarations before and after the entry function.
AroundMain ==
    { <<(<<>>), (<<>>)>>,
      <<(<<D_MinAmount>>), (<<>>)>>,
      <<(<<>>), (<<D_MinAmount, F_Check>>)>>,
      <<(<<GenDecl("const", <<ValueSpec(<<n_a, n_b>>, Nil, <<Lit(1), Lit(2)>>),
                              ValueSpec(<<n_k>>, Nil, <<>>)>>)>>), (<<>>)>>,
      <<(<<GenDecl("var", <<ValueSpec(<<n_k>>, T_uint8, <<Lit(3)>>)>>), F_Validate>>),
        (<<>>)>>,
      <<(<<GenDecl("const", <<ValueSpec(<<n_amount>>, Ident(S_auto),
                                        <<IntLit(<<"1", "0", "0">>)>>)>>)>>),
        (<<>>)>>,
      <<(<<>>), (<<GenDecl("const", <<ValueSpec(<<n_k>>, T_pkgT, <<Lit(1)>>)>>)>>)>> }

\* The trees handed to ToSimplicityHL on its own; each passes validation.
TranslatedPrograms ==
    { File(d[1] \o <<MainDecl(body)>> \o d[2]) :
          d \in AroundMain, body \in SeqsUpTo(BodyStmtPool, MaxStmts) }
    \cup { File(<<D_MinAmount, F_Validate>>) }

n_ValidateLogic  == <<"V", "a", "l", "i", "d", "a", "t", "e", "L", "o", "g", "i", "c">>
n_ValidateP2PK   == <<"V", "a", "l", "i", "d", "a", "t", "e", "P", "2", "P", "K">>
n_signatureValid == <<"s", "i", "g", "n", "a", "t", "u", "r", "e", "V", "a", "l", "i", "d">>
n_myResult       == <<"m", "y", "R", "e", "s", "u", "l", "t">>
n_Main           == <<"M", "a", "i", "n">>
n_Log            == <<"L", "o", "g">>
n_Add            == <<"A", "d", "d">>
n_Flag           == <<"F", "l", "a", "g">>

T_uint32 == Ident(S_uint32)

\* Function declarations other than the entry function: grouped, separate
\* and unnamed parameters, none, one and two results, bodies of the shapes
\* analyzeFunctionBody tells apart.
F_ValidateLogic ==
    FuncDecl(n_ValidateLogic, <<Field(<<n_a, n_b>>, T_bool)>>, <<Field(<<>>, T_bool)>>,
             BlockStmt(<<ReturnStmt(<<BinaryExpr(Ident(n_a), "&&", Ident(n_b))>>)>>))
F_ValidateP2PK ==
    FuncDecl(n_ValidateP2PK, <<Field(<<n_signatureValid>>, T_bool)>>,
             <<Field(<<>>, T_bool)>>,
             BlockStmt(<<ReturnStmt(<<Ident(n_signatureValid)>>)>>))
F_Main == FuncDecl(n_Main, <<>>, <<>>, BlockStmt(<<>>))
F_Log ==
    FuncDecl(n_Log, <<Field(<<n_x>>, T_uint8), Field(<<n_ok>>, T_bool)>>, <<>>,
             BlockStmt(<<>>))
F_Add ==
    FuncDecl(n_Add, <<Field(<<n_a>>, T_uint32), Field(<<n_b>>, T_uint32)>>,
             <<Field(<<>>, T_uint32)>>,
             BlockStmt(<<ReturnStmt(<<BinaryExpr(Ident(n_a), "+", Ident(n_b))>>)>>))
F_Flag ==
    FuncDecl(n_Flag, <<Field(<<>>, T_bool)>>,
             <<Field(<<>>, T_bool), Field(<<>>, T_uint8)>>,
             BlockStmt(<<ReturnStmt(<<Ident(S_true), Lit(1)>>)>>))

EntryFuncPool ==
    { F_Validate, F_Check, F_ValidateLogic, F_ValidateP2PK, F_Main, F_Log, F_Add,
      F_Flag, F_BadParam }

\* Statements of the entry function bodies translated together with
\* function declarations.
E_signatureValid == Define(n_signatureValid, Ident(S_true))
E_result         == Define(S_result, Call(n_ValidateP2PK, <<Ident(n_signatureValid)>>))
E_ifNotResult    ==
    IfStmt(UnaryExpr("!", Ident(S_result)), BlockStmt(<<ReturnStmt(<<>>)>>), Nil)
E_hex            == Define(n_x, IntLit(<<"0", "x", "1", "0">>))
E_assign         == AssignStmt(<<Ident(n_x)>>, "=", <<Lit(2)>>)
E_twoBools       == VarStmt(<<n_a, n_b>>, T_bool, <<Ident(S_true), Ident(S_false)>>)
E_myResult       == VarStmt(<<n_myResult>>, T_uint64, <<Lit(5)>>)
E_negative       == VarStmt(<<n_k>>, Nil, <<BinaryExpr(Lit(0), "-", Lit(5))>>)
E_copy           == VarStmt(<<n_y>>, T_uint64, <<Ident(n_x)>>)
E_auto           == VarStmt(<<n_p>>, Ident(S_auto), <<Lit(5)>>)

EntryStmtPool ==
    { E_signatureValid, E_result, E_ifNotResult, E_hex, E_assign, E_twoBools,
      E_myResult, E_negative, E_copy, E_auto }

\* The entry function bodies set against every list of function
\* declarations, and the lists of function declarations set against every
\* entry function body.
EntryBodies ==
    { <<>>, <<E_signatureValid>>, <<E_twoBools>>, <<E_hex>>, <<E_myResult>>,
      <<E_signatureValid, E_result, E_ifNotResult>> }

EntryFuncLists == { <<>>, <<F_Validate>>, <<F_ValidateLogic>>, <<F_Check>> }

\* The trees handed to ToSimplicityHL with function declarations; each
\* passes validation.
EntryPrograms ==
    { File(fs \o <<MainDecl(body)>>) :
          fs \in SeqsUpTo(EntryFuncPool, MaxFuncs), body \in EntryBodies }
    \cup { File(fs \o <<MainDecl(body)>>) :
          fs \in EntryFuncLists, body \in SeqsUpTo(EntryStmtPool, MaxStmts) }
    \cup { File(<<F_Validate, MainDecl(<<E_signatureValid>>), F_Add>>),
           File(<<MainDecl(<<E_twoBools>>), D_MinAmount, F_ValidateLogic>>),
           File(<<F_Main, F_Log>>) }

\* Statements of the function bodies handed to analyzeFunctionBody: return
\* statements of a comparison, of an identifier and of other expressions,
\* with none, one and two results, and statements that are no return.
FuncStmtPool ==
    { ReturnStmt(<<BinaryExpr(Ident(n_amount), ">", Lit(0))>>),
      ReturnStmt(<<BinaryExpr(Ident(n_x), ">", Ident(n_y))>>),
      ReturnStmt(<<BinaryExpr(Lit(1), ">", Ident(n_x))>>),
      ReturnStmt(<<BinaryExpr(Ident(n_x), "<", Lit(1))>>),
      ReturnStmt(<<BinaryExpr(Ident(n_x), ">=", Lit(1))>>),
      ReturnStmt(<<BinaryExpr(Ident(n_x), "==", Lit(0))>>),
      ReturnStmt(<<BinaryExpr(Ident(n_a), "&&", Ident(n_b))>>),
      ReturnStmt(<<Ident(n_amountValid)>>),
      ReturnStmt(<<Ident(n_b)>>),
      ReturnStmt(<<UnaryExpr("!", Ident(n_a))>>),
      ReturnStmt(<<Call(n_Validate, <<Ident(n_a)>>)>>),
      ReturnStmt(<<ParenExpr(BinaryExpr(Ident(n_x), ">", Lit(0)))>>),
      ReturnStmt(<<>>),
      ReturnStmt(<<Ident(n_a), Ident(n_b)>>),
      Define(n_b, Ident(n_a)),
      VarStmt(<<n_x>>, T_uint8, <<Lit(1)>>),
      IfStmt(Ident(n_a), BlockStmt(<<ReturnStmt(<<Ident(n_b)>>)>>), Nil) }

\* The function bodies handed to analyzeFunctionBody.
FunctionBodies == { BlockStmt(l) : l \in SeqsUpTo(FuncStmtPool, MaxStmts) }

\* Type expressions without a component type.
LeafTypes ==
    { Ident(nm) : nm \in { S_bool, S_uint8, S_byte, S_uint16, S_uint32, S_uint64,
                           S_Hash, S_Address, S_Pubkey, S_Signature, S_Amount,
                           S_u8, n_int, n_Foo } }
    \cup { SelectorExpr(Ident(S_bitcoin), nm) :
               nm \in { S_Hash, S_Address, S_Pubkey, S_Signature, S_Amount, n_Foo } }
    \cup { T_pkgT, SelectorExpr(Ident(n_pkg), S_Hash),
           SelectorExpr(SelectorExpr(Ident(n_a), n_b), S_Hash),
           T_ptr, T_map, T_chan, InterfaceType }

\* The leaves used as component types.
InnerLeafTypes ==
    { T_byte, Ident(n_Foo), SelectorExpr(Ident(S_bitcoin), S_Signature), T_pkgT, T_ptr }

\* Array length expressions: decimal, hexadecimal and octal integer
\* literals, a constant's name, none (a slice), a character literal, "...".
LenPool ==
    { IntLit(<<"2">>), IntLit(<<"3", "2">>), IntLit(<<"0", "x", "2", "0">>),
      IntLit(<<"0", "1", "0">>), Ident(n_N), Nil,
      BasicLit("CHAR", <<"'", "a", "'">>), Ellipsis }

InnerLenPool == { IntLit(<<"2">>), IntLit(<<"0", "x", "2", "0">>), Nil }

\* The name lists of a struct field: embedded, one name, two names.
FieldNames == { <<>>, <<n_x>>, <<n_x, n_y>> }

RECURSIVE InnerTypes(_)
\* Component types of at most d levels of nesting.
InnerTypes(d) ==
    IF d = 0 THEN InnerLeafTypes
    ELSE InnerTypes(d - 1)
         \cup { ArrayType(l, e) : l \in InnerLenPool, e \in InnerTypes(d - 1) }
         \cup { StructType(<<Field(<<n_x>>, e)>>) : e \in InnerTypes(d - 1) }

\* The field lists of a struct type: fields of leaf types, at most
\* MaxFields of them, or one named field of a nested type (an embedded
\* field is a type name).
FieldLists(d) ==
    SeqsUpTo({ Field(nms, e) : nms \in FieldNames, e \in InnerLeafTypes }, MaxFields)
    \cup { <<Field(nms, e)>> : nms \in FieldNames \ {<<>>}, e \in InnerTypes(d) }

\* The type expressions handed to MapGoType.
TypeExprs ==
    LeafTypes
    \cup { ArrayType(l, e) : l \in LenPool, e \in InnerTypes(MaxTypeDepth - 1) }
    \cup { StructType(fl) : fl \in FieldLists(MaxTypeDepth - 1) }

\* Type strings handed to GetBitSize that are no case of its switch: names
\* it does not know, array-shaped strings, well formed and malformed, and
\* tuple-shaped strings.
OtherBitStrings ==
    { <<>>,
      <<"b", "y", "t", "e">>,
      <<"F", "o", "o">>,
      <<"a", "u", "t", "o">>,
      <<"[">>,
      <<"]">>,
      <<";">>,
      <<"[", ";">>,
      <<"[", ";", "]">>,
      <<"[", "]">>,
      <<"[", "u", "8", "]">>,
      <<"u", "8", ";", " ", "4", "]">>,
      <<"[", "u", "8", ";", " ", "4">>,
      <<"[", "u", "8", ";", " ", "4", "]">>,
      <<"[", "u", "8", ";", "4", "]">>,
      <<"[", " ", "u", "8", " ", ";", " ", "4", " ", "]">>,
      <<"[", "u", "8", ";", " ", "x", "]">>,
      <<"[", "u", "8", ";", " ", "]">>,
      <<"[", "u", "8", ";", " ", "-", "3", "]">>,
      <<"[", "u", "8", ";", " ", "+", "3", "]">>,
      <<"[", "u", "8", ";", " ", "0", "]">>,
      <<"[", "u", "8", ";", " ", "4", ";", "]">>,
      <<"[", "u", "8", ";", " ", "4", "]", "]">>,
      <<"[", "[", "u", "8", ";", " ", "4", "]">>,
      <<"[", "u", "2", "5", "6", ";", " ", "2", "]">>,
      <<"[", "(", ")", ";", " ", "4", "]">>,
      <<"[", "F", "o", "o", ";", " ", "2", "]">>,
      <<"[", "b", "o", "o", "l", ";", " ", "3", "]">>,
      <<"[", "u", "6", "4", ";", " ", "2", "]">>,
      <<"[", "[", "u", "8", ";", " ", "2", "]", ";", " ", "3", "]">>,
      <<"[", "u", "8", ";", " ", "9", "9", "9", "9", "9", "9", "9", "9", "9", "9", "9", "9", "9", "9", "9", "9", "9", "9", "9", "9", "]">>,
      <<"[", "u", "8", ";", " ", "0", "x", "4", "]">>,
      <<"(", "u", "8", ",", " ", "u", "3", "2", ")">>,
      <<"(", "u", "8", ",", ")">>,
      <<"\t", "[", "u", "8", ";", " ", "4", "]">>,
      <<"[", "u", "8", ";", " ", "4", "]", " ">>,
      <<"[", "u", "8", ";", "\t", "4", "\n", "]">>,
      <<"[", "e", ";", " ", "1", "]">> }

\* The strings handed to GetBitSize.
BitStrings == { c[1] : c \in BitSizeCases } \cup OtherBitStrings

\* The type expressions that are mapped and then sized: those handed to
\* MapGoType, and arrays and structs of the unsigned integer types.
WidthTypes ==
    TypeExprs
    \cup { ArrayType(l, Ident(nm)) :
               l \in { IntLit(<<"0">>), IntLit(<<"1">>), IntLit(<<"4">>) },
               nm \in { S_bool, S_uint8, S_uint16, S_uint32, S_uint64, S_Hash } }
    \cup { StructType(<<Field(<<n_a>>, Ident(nm1)), Field(<<n_b>>, Ident(nm2))>>) :
               nm1 \in { S_uint8, S_bool }, nm2 \in { S_uint32, S_Hash } }
    \cup { StructType(<<Field(<<n_a>>, Ident(S_uint8))>>),
           StructType(<<Field(<<n_a, n_b>>, Ident(S_uint16))>>) }

\* The values of the integer literals handed to the evaluator: small
\* ones, and the ends of the signed and of the unsigned range of the width.
EvalValues == {0, 1, 2, 3, 40, IntCutoff - 1, IntCutoff, 2 * IntCutoff - 1}

\* Integer literals: decimal ones, a hexadecimal and an octal one.
EvalLits ==
    { Lit(n) : n \in EvalValues }
    \cup { IntLit(<<"0", "x", "1", "0">>), IntLit(<<"0", "1", "0">>) }

EvalOps == {"+", "-", "*", "/", ">", "<", ">=", "<=", "==", "!="}

\* The literals written inside parentheses.
SmallLits == { Lit(0), Lit(2), Lit(40) }

EvalBools == { Ident(S_true), Ident(S_false) }

\* The expressions handed to evaluateExpression.
EvalExprs ==
    EvalLits
    \cup { BinaryExpr(a, op, b) : a \in EvalLits, op \in EvalOps, b \in EvalLits }
    \cup EvalBools
    \cup { UnaryExpr("!", e) : e \in EvalBools }
    \cup { UnaryExpr("!", UnaryExpr("!", e)) : e \in EvalBools }
    \cup { UnaryExpr("!", ParenExpr(e)) : e \in EvalBools }
    \cup { ParenExpr(e) : e \in EvalBools \cup SmallLits }
    \cup { ParenExpr(BinaryExpr(a, op, b)) :
               a \in SmallLits, op \in EvalOps, b \in SmallLits }
    \cup { BinaryExpr(ParenExpr(BinaryExpr(a, "+", b)), op, c) :
               a \in SmallLits, b \in SmallLits, op \in EvalOps, c \in SmallLits }
    \cup { BinaryExpr(c, op, ParenExpr(BinaryExpr(a, "-", b))) :
               a \in SmallLits, b \in SmallLits, op \in EvalOps, c \in SmallLits }
    \cup { UnaryExpr("!", BinaryExpr(a, op, b)) :
               a \in SmallLits, op \in {">", "==", "!="}, b \in SmallLits }
    \cup { Ident(n_x), Call(n_Validate, <<Ident(n_x)>>), UnaryExpr("-", Lit(1)),
           BinaryExpr(Ident(n_x), ">", Lit(0)),
           BinaryExpr(Lit(1), "+", UnaryExpr("-", Lit(1))),
           BasicLit("STRING", <<"\"", "a", "\"">>) }

\* Statements without a body.
FlatStmts ==
    { Define(n_y, Lit(1)),
      Define(n_x, Call(S_make, <<T_map>>)),
      Define(n_x, Call(S_make, <<T_chan, Lit(1)>>)),
      Define(n_x, Call(S_make, <<T_slice, Lit(2)>>)),
      Define(n_x, Call(S_make, <<T_arr2>>)),
      Define(n_x, Call(n_Validate, <<T_map>>)),
      VarStmt(<<n_a>>, T_arr2, <<>>),
      VarStmt(<<n_a>>, ArrayType(IntLit(<<"2">>), T_slice), <<>>),
      VarStmt(<<n_a>>, MapType(T_int, T_slice), <<>>),
      VarStmt(<<n_a>>, ChanType(T_chan), <<>>),
      DeclStmt(GenDecl("type", <<TypeSpec(n_Reader, InterfaceType)>>)),
      DeclStmt(GenDecl("type",
                       <<TypeSpec(n_T, StructType(<<Field(<<n_a>>, InterfaceType)>>))>>)),
      GoStmt(Call(n_Validate, <<>>)) }

RECURSIVE NestedStmts(_)
\* Statements of at most d levels of nesting.
NestedStmts(d) ==
    IF d = 0 THEN FlatStmts
    ELSE NestedStmts(d - 1)
         \cup { ForStmt(Nil, BlockStmt(<<s>>)) : s \in NestedStmts(d - 1) }
         \cup { RangeStmt(Ident(n_a), BlockStmt(<<s>>)) : s \in NestedStmts(d - 1) }
         \cup { IfStmt(Ident(n_ok), BlockStmt(<<s>>), Nil) : s \in NestedStmts(d - 1) }
         \cup { GoStmt(CallExpr(FuncLit(BlockStmt(<<s>>)), <<>>)) :
                    s \in NestedStmts(d - 1) }

\* Parameter types of the function declared next to the entry function.
ParamTypes == { T_bool, T_arr2, T_slice, T_map, T_chan, InterfaceType }

\* The trees handed to the validator.
ValidatorTrees ==
    { File(<<FuncDecl(n_Check, <<Field(<<n_a>>, pt)>>, <<>>, BlockStmt(<<>>)),
             MainDecl(<<s>>)>>) :
          pt \in ParamTypes, s \in NestedStmts(MaxNest) }
    \cup { File(<<MainDecl(<<s1, s2>>)>>) :
               s1 \in NestedStmts(MaxNest), s2 \in FlatStmts }

Targets == {"simplicityhl", "simplicity", "wasm"}

(***************************************************************************)
(* The state machine.                                                      *)
(***************************************************************************)
Compilers == {1, 2}

VARIABLES
    config,        \* config[c]: the Target of compiler c's Config
    transpilerOf,  \* transpilerOf[c]: the Transpiler compiler c points to
    transpilers,   \* transpilers[t]: the state of Transpiler object t
    pc,            \* pc[c]: where compiler c's Compile call stands
    file,          \* file[c]: the tree of compiler c's current call
    verr,          \* verr[c]: what validateGoCode returned in the current call
    declIdx,       \* declIdx[c]: position of the loop of analyzeCode
    ret,           \* ret[c]: what the current call returned
    ncalls,        \* ncalls[c]: the number of Compile calls made on c
    overlap,       \* history: another compiler took a step during c's call
    start,         \* history: the state of c's transpiler when the call began
    fnIn,          \* the argument of an operation run on its own
    fnOut,         \* its result
    fnPc           \* whether it has run

vars == <<config, transpilerOf, transpilers, pc, file, verr, declIdx, ret,
          ncalls, overlap, start, fnIn, fnOut, fnPc>>

callVars == <<config, transpilerOf, transpilers, pc, file, verr, declIdx, ret,
              ncalls, overlap, start>>

\* A compiler.New that hands every compiler one shared Transpiler.
NewShared(c) == 1

\* compiler.New: the Transpiler object the new compiler c points to, which
\* transpiler.New allocates for it.
New(c) == c

TotalCalls == ncalls[1] + ncalls[2]

InitCalls ==
    /\ config \in [Compilers -> Targets]
    /\ transpilerOf = [c \in Compilers |-> New(c)]
    /\ transpilers = [t \in Compilers |-> NewTranspilerState]
    /\ pc = [c \in Compilers |-> "idle"]
    /\ file = [c \in Compilers |-> File(<<>>)]
    /\ verr = [c \in Compilers |-> [done |-> FALSE, err |-> NoErr]]
    /\ declIdx = [c \in Compilers |-> 0]
    /\ ret = [c \in Compilers |-> Pending]
    /\ ncalls = [c \in Compilers |-> 0]
    /\ overlap = [c \in Compilers |-> FALSE]
    /\ start = [c \in Compilers |-> NewTranspilerState]

NoFn == /\ fnIn = Nil
        /\ fnOut = Nil
        /\ fnPc = "none"

Init == InitCalls /\ NoFn

\* The history variable after a step of compiler c.
Overlapped(c) ==
    [d \in Compilers |-> IF d = c THEN overlap[c] ELSE overlap[d] \/ pc[d] # "idle"]

\* The caller invokes c.Compile on (the source of) tree f.
CallCompile(c, f) ==
    /\ pc[c] = "idle"
    /\ TotalCalls < MaxCalls
    /\ pc' = [pc EXCEPT ![c] = "validate"]
    /\ file' = [file EXCEPT ![c] = f]
    /\ verr' = [verr EXCEPT ![c] = [done |-> FALSE, err |-> NoErr]]
    /\ ret' = [ret EXCEPT ![c] = Pending]
    /\ ncalls' = [ncalls EXCEPT ![c] = @ + 1]
    /\ declIdx' = [declIdx EXCEPT ![c] = 0]
    /\ overlap' = [Overlapped(c) EXCEPT ![c] = FALSE]
    /\ start' = [start EXCEPT ![c] = transpilers[transpilerOf[c]]]
    /\ UNCHANGED <<config, transpilerOf, transpilers, fnIn, fnOut, fnPc>>

\* Compile: validateGoCode(file).
Validate(c) ==
    /\ pc[c] = "validate"
    /\ verr' = [verr EXCEPT ![c] = [done |-> TRUE, err |-> validateGoCode(file[c])]]
    /\ pc' = [pc EXCEPT ![c] = "validated"]
    /\ overlap' = Overlapped(c)
    /\ UNCHANGED <<start, config, transpilerOf, transpilers, file, declIdx, ret, ncalls,
                   fnIn, fnOut, fnPc>>

\* Compile returns without calling the transpiler: validation failed, or
\* the target is not "simplicityhl".
ReturnEarly(c) ==
    /\ pc[c] = "validated"
    /\ LET d == compileDispatch(verr[c].err, config[c])
       IN /\ ~d.call
          /\ ret' = [ret EXCEPT ![c] = d.ret]
    /\ pc' = [pc EXCEPT ![c] = "idle"]
    /\ overlap' = Overlapped(c)
    /\ UNCHANGED <<start, config, transpilerOf, transpilers, file, verr, declIdx, ncalls,
                   fnIn, fnOut, fnPc>>

\* Compile calls ToSimplicityHL, which first resets the transpiler.
EnterToSimplicityHL(c) ==
    /\ pc[c] = "validated"
    /\ compileDispatch(verr[c].err, config[c]).call
    /\ transpilers' = [transpilers EXCEPT ![transpilerOf[c]] = resetState(@)]
    /\ declIdx' = [declIdx EXCEPT ![c] = 1]
    /\ pc' = [pc EXCEPT ![c] = "analyze"]
    /\ overlap' = Overlapped(c)
    /\ UNCHANGED <<start, config, transpilerOf, file, verr, ret, ncalls, fnIn, fnOut, fnPc>>

\* The end of one iteration of the loop of analyzeCode, r being what the
\* analysis of the declaration returned: on an error ToSimplicityHL, and
\* Compile, return; a panic ends the call as well.
AnalyzeDeclResult(c, r) ==
    /\ transpilers' = [transpilers EXCEPT ![transpilerOf[c]] = r.t]
    /\ ret' = [ret EXCEPT ![c] = IF r.err # NoErr THEN analysisEnded(r.t, r.err) ELSE @]
    /\ pc' = [pc EXCEPT ![c] = IF r.err # NoErr THEN "idle" ELSE @]
    /\ declIdx' = [declIdx EXCEPT ![c] = IF r.err # NoErr THEN @ ELSE @ + 1]

\* One iteration of the loop of analyzeCode.
AnalyzeDecl(c) ==
    /\ pc[c] = "analyze"
    /\ declIdx[c] <= Len(file[c].Decls)
    /\ AnalyzeDeclResult(c, analyzeDecl(file[c].Decls[declIdx[c]],
                                        transpilers[transpilerOf[c]]))
    /\ overlap' = Overlapped(c)
    /\ UNCHANGED <<start, config, transpilerOf, file, verr, ncalls, fnIn, fnOut, fnPc>>

\* ToSimplicityHL: generateCode().
Generate(c) ==
    /\ pc[c] = "analyze"
    /\ declIdx[c] > Len(file[c].Decls)
    /\ transpilers' = [transpilers EXCEPT ![transpilerOf[c]] = generateCode(@)]
    /\ pc' = [pc EXCEPT ![c] = "generated"]
    /\ overlap' = Overlapped(c)
    /\ UNCHANGED <<start, config, transpilerOf, file, verr, declIdx, ret, ncalls,
                   fnIn, fnOut, fnPc>>

\* ToSimplicityHL, and Compile, return t.output.String().
ReturnOutput(c) ==
    /\ pc[c] = "generated"
    /\ ret' = [ret EXCEPT ![c] = Returned(transpilers[transpilerOf[c]].output, NoErr)]
    /\ pc' = [pc EXCEPT ![c] = "idle"]
    /\ overlap' = Overlapped(c)
    /\ UNCHANGED <<start, config, transpilerOf, transpilers, file, verr, declIdx, ncalls,
                   fnIn, fnOut, fnPc>>

Step(c) ==
    \/ Validate(c)
    \/ ReturnEarly(c)
    \/ EnterToSimplicityHL(c)
    \/ AnalyzeDecl(c)
    \/ Generate(c)
    \/ ReturnOutput(c)

\* Several compilers, each called any number of times, their steps
\* interleaved.
Next ==
    \E c \in Compilers :
        \/ \E f \in SharedPrograms : CallCompile(c, f)
        \/ Step(c)

Spec == Init /\ [][Next]_vars

\* One compiler, called once, on the larger set of trees.
InitOne == Init /\ config[2] = config[1]

NextOne ==
    \/ \E f \in Programs : ncalls[1] = 0 /\ CallCompile(1, f)
    \/ Step(1)

SpecOne == InitOne /\ [][NextOne]_vars

\* No Compile call is made while one operation is run on its own.
NoCalls == InitCalls /\ config = [c \in Compilers |-> "simplicityhl"]

\* TypeMapper.MapGoType run on one type expression.
InitTypes ==
    /\ NoCalls
    /\ fnIn \in TypeExprs
    /\ fnOut = Nil
    /\ fnPc = "MapGoType"

CallMapGoType ==
    /\ fnPc = "MapGoType"
    /\ fnOut' = MapGoType(fnIn)
    /\ fnPc' = "done"
    /\ UNCHANGED <<fnIn, callVars>>

NextTypes == CallMapGoType

SpecTypes == InitTypes /\ [][NextTypes]_vars

\* Compiler.validateGoCode run on one tree: the diagnostics the walk
\* collects and the error returned.
InitValidate ==
    /\ NoCalls
    /\ fnIn \in ValidatorTrees
    /\ fnOut = Nil
    /\ fnPc = "validateGoCode"

CallValidateGoCode ==
    /\ fnPc = "validateGoCode"
    /\ fnOut' = [errors |-> Inspect(fnIn, <<>>), err |-> validateGoCode(fnIn)]
    /\ fnPc' = "done"
    /\ UNCHANGED <<fnIn, callVars>>

NextValidate == CallValidateGoCode

SpecValidate == InitValidate /\ [][NextValidate]_vars

\* TypeMapper.GetBitSize run on one type string, and run on the type
\* string MapGoType returned for one type expression.
InitBits ==
    /\ NoCalls
    /\ fnOut = Nil
    /\ \/ fnPc = "GetBitSize" /\ fnIn \in BitStrings
       \/ fnPc = "MapGoType" /\ fnIn \in WidthTypes

CallGetBitSize ==
    /\ fnPc = "GetBitSize"
    /\ fnOut' = GetBitSize(fnIn)
    /\ fnPc' = "sized"
    /\ UNCHANGED <<fnIn, callVars>>

CallGetBitSizeOfMapped ==
    /\ fnPc = "MapGoType"
    /\ fnOut' = bitSizeOfMapped(MapGoType(fnIn))
    /\ fnPc' = "mapped and sized"
    /\ UNCHANGED <<fnIn, callVars>>

NextBits == CallGetBitSize \/ CallGetBitSizeOfMapped

SpecBits == InitBits /\ [][NextBits]_vars

\* Transpiler.evaluateExpression run on one expression.
InitEval ==
    /\ NoCalls
    /\ fnIn \in EvalExprs
    /\ fnOut = Nil
    /\ fnPc = "evaluateExpression"

CallEvaluateExpression ==
    /\ fnPc = "evaluateExpression"
    /\ fnOut' = evaluateExpression(fnIn)
    /\ fnPc' = "evaluated"
    /\ UNCHANGED <<fnIn, callVars>>

NextEval == CallEvaluateExpression

SpecEval == InitEval /\ [][NextEval]_vars

\* Transpiler.ToSimplicityHL run from start to end on a new transpiler: the
\* state it leaves, as t, and what it returns, as ret.
InitTranslate ==
    /\ NoCalls
    /\ fnIn \in TranslatedPrograms
    /\ fnOut = Nil
    /\ fnPc = "ToSimplicityHL"

CallToSimplicityHL ==
    /\ fnPc = "ToSimplicityHL"
    /\ fnOut' = ToSimplicityHL(fnIn, NewTranspilerState)
    /\ fnPc' = "translated"
    /\ UNCHANGED <<fnIn, callVars>>

NextTranslate == CallToSimplicityHL

SpecTranslate == InitTranslate /\ [][NextTranslate]_vars

\* Transpiler.analyzeFunctionBody run on one function body.
InitBody ==
    /\ NoCalls
    /\ fnIn \in FunctionBodies
    /\ fnOut = Nil
    /\ fnPc = "analyzeFunctionBody"

CallAnalyzeFunctionBody ==
    /\ fnPc = "analyzeFunctionBody"
    /\ fnOut' = analyzeFunctionBody(fnIn)
    /\ fnPc' = "body analyzed"
    /\ UNCHANGED <<fnIn, callVars>>

NextBody == CallAnalyzeFunctionBody

SpecBody == InitBody /\ [][NextBody]_vars

\* Transpiler.ToSimplicityHL run from start to end on a new transpiler, on
\* a tree with function declarations.
InitEntry ==
    /\ NoCalls
    /\ fnIn \in EntryPrograms
    /\ fnOut = Nil
    /\ fnPc = "ToSimplicityHL"

SpecEntry == InitEntry /\ [][NextTranslate]_vars

(***************************************************************************)
(* Properties of Compile.                                                  *)
(***************************************************************************)
\* The transpiler compiler c points to.
TranspilerOf(c) == transpilers[transpilerOf[c]]

\* C1: whenever a Compile call returns a failure (validation failure,
\* failure during analysis, unsupported or unimplemented target) the text
\* it returns is empty: nothing generated is returned with an error.
C1_NoPartialOutput ==
    \A c \in Compilers :
        ret[c].done /\ ret[c].err # NoErr => ret[c].text = <<>>

\* A call failed during analysis after witnesses had been recorded.
C1_Witness ==
    /\ ret[1].done
    /\ ret[1].err # NoErr
    /\ TranspilerOf(1).witnessValues # <<>>

\* C2: no state persists across calls: whatever calls were made before on
\* the same compiler, also calls that failed part-way through analysis,
\* a call returns what the same tree returns on a compiler just created.
C2_SameAsFresh ==
    \A c \in Compilers :
        ret[c].done /\ ncalls[c] >= 1 =>
            ret[c] = Compile(file[c], config[c], NewTranspilerState)

\* A second call on one compiler returned a text with witnesses in it.
C2_Witness ==
    \E c \in Compilers :
        /\ ncalls[c] = 2
        /\ ret[c].done
        /\ ret[c].err = NoErr
        /\ TranspilerOf(c).witnessValues # <<>>

\* C3: a call whose steps were interleaved with the steps of a call on
\* another compiler returns what it returns when run alone, and a step of
\* one compiler leaves the other compiler's transpiler as it was.
C3_Interleaved ==
    /\ [](\A c \in Compilers :
             ret[c].done /\ overlap[c] =>
                 ret[c] = Compile(file[c], config[c], start[c]))
    /\ [][\A c \in Compilers :
             pc'[c] = pc[c] /\ declIdx'[c] = declIdx[c] =>
                 transpilers'[transpilerOf[c]] = transpilers[transpilerOf[c]]]_vars

\* Two calls on different trees overlapped and both returned a text.
C3_Witness ==
    /\ ret[1].done /\ overlap[1] /\ ret[1].err = NoErr
    /\ ret[2].done /\ overlap[2] /\ ret[2].err = NoErr
    /\ file[1] # file[2]
    /\ TranspilerOf(1).witnessValues # <<>>
    /\ TranspilerOf(2).witnessValues # <<>>

\* C6: analysis and generation run only after validation has completed
\* without a diagnostic; when validation reports a disallowed construct the
\* call returns the validation failure, and no witness, constant or
\* function record is created.
C6_ValidationFirst ==
    \A c \in Compilers :
        /\ pc[c] \in {"analyze", "generated"} =>
               verr[c].done /\ verr[c].err = NoErr
        /\ verr[c].done /\ verr[c].err # NoErr =>
               /\ pc[c] \in {"validated", "idle"}
               /\ TranspilerOf(c) = NewTranspilerState
               /\ pc[c] = "idle" =>
                      ret[c] = Returned(<<>>, Errorf("Go code validation failed: ",
                                                     verr[c].err))

\* A call on a tree with several declarations was halted by validation.
C6_Witness ==
    /\ ret[1].done
    /\ verr[1].err # NoErr
    /\ config[1] = "simplicityhl"
    /\ Len(file[1].Decls) >= 2

RECURSIVE TypesUnder(_)
\* The type expressions written in the declarations at or below node n:
\* the types of value specifications, parameters and results.
TypesUnder(n) ==
    (IF n.kind \in {"ValueSpec", "Field"} /\ n.Type # Nil THEN {n.Type} ELSE {})
    \cup UNION { TypesUnder(Children(n)[i]) : i \in 1..Len(Children(n)) }

RECURSIVE InitializersUnder(_)
\* The initializer expressions at or below node n: the values of value
\* specifications and the right-hand sides of assignments.
InitializersUnder(n) ==
    (IF n.kind = "ValueSpec" THEN { n.Values[i] : i \in 1..Len(n.Values) } ELSE {})
    \cup (IF n.kind = "AssignStmt" THEN { n.Rhs[i] : i \in 1..Len(n.Rhs) } ELSE {})
    \cup UNION { InitializersUnder(Children(n)[i]) : i \in 1..Len(Children(n)) }

\* The initializer divides by a literal zero.
DivByZero == BinaryExpr(Lit(5), "/", Lit(0))

\* C7: a translation of a validated tree fails only with the failure of a
\* type mapping of one of the tree's type expressions, and the evaluator
\* returns a value and no error for every initializer expression
\* (identifier, call, division by a literal zero, any other shape).
C7_OnlyTypeMappingFails ==
    \A c \in Compilers :
        /\ ( /\ ret[c].done
             /\ verr[c].done /\ verr[c].err = NoErr
             /\ config[c] = "simplicityhl"
             /\ ret[c].err # NoErr )
           => \E ty \in TypesUnder(file[c]) :
                  /\ MapGoType(ty).err # NoErr
                  /\ ret[c].err = Errorf("code analysis failed: ", MapGoType(ty).err)
        /\ \A e \in InitializersUnder(file[c]) :
               /\ evaluateExpression(e).err = NoErr
               /\ evaluateExpression(e).val # <<>>

\* A tree all of whose type expressions map was validated and its
\* translation ended in a panic.
C7_Witness ==
    /\ ret[1].done
    /\ ret[1].err = Panic
    /\ verr[1].err = NoErr
    /\ \A ty \in TypesUnder(file[1]) : MapGoType(ty).err = NoErr
    /\ DivByZero \in InitializersUnder(file[1])

(***************************************************************************)
(* Properties of the validator.                                            *)
(***************************************************************************)
\* The kind of disallowed construct a node is, "" when it is none.
DisallowedKind(n) ==
    CASE n.kind \in {"ForStmt", "RangeStmt"}  -> "loop"
      [] n.kind = "GoStmt"                    -> "goroutine"
      [] n.kind = "ChanType"                  -> "channel"
      [] n.kind = "InterfaceType"             -> "interface"
      [] n.kind = "ArrayType" /\ n.Len = Nil  -> "slice"
      [] n.kind = "MapType"                   -> "map"
      [] OTHER -> ""

\* The diagnostic that names a kind.
MsgOf(kind) ==
    CASE kind = "loop"      -> MsgLoop
      [] kind = "goroutine" -> MsgGo
      [] kind = "channel"   -> MsgChan
      [] kind = "interface" -> MsgInterface
      [] kind = "slice"     -> MsgSlice
      [] kind = "map"       -> MsgMap

RECURSIVE Occurrences(_)
\* The kinds of all disallowed constructs at or below node n, one entry
\* per occurrence, in source order.
Occurrences(n) ==
    LET below[i \in 0..Len(Children(n))] ==
            IF i = 0 THEN <<>> ELSE below[i - 1] \o Occurrences(Children(n)[i])
    IN (IF DisallowedKind(n) = "" THEN <<>> ELSE <<DisallowedKind(n)>>)
       \o below[Len(Children(n))]

KindsIn(n) == { Occurrences(n)[i] : i \in 1..Len(Occurrences(n)) }

\* C4: validation fails exactly when the tree contains a loop, a go
\* statement, a channel type, an interface type, a slice or a map type; a
\* tree without any of them (fixed-size arrays included) gets no
\* diagnostic; a tree with one kind of them gets messages naming that kind.
C4_FailsIffDisallowed ==
    fnPc = "done" =>
        /\ (fnOut.err # NoErr) <=> (KindsIn(fnIn) # {})
        /\ KindsIn(fnIn) = {} => fnOut.errors = <<>>
        /\ \A k \in KindsIn(fnIn) :
               KindsIn(fnIn) = {k} =>
                   /\ Len(fnOut.errors) >= 1
                   /\ \A i \in 1..Len(fnOut.errors) : fnOut.errors[i] = MsgOf(k)

\* A tree with fixed-size arrays whose only disallowed constructs are
\* slices was rejected.
C4_Witness ==
    /\ fnPc = "done"
    /\ KindsIn(fnIn) = {"slice"}
    /\ fnOut.err # NoErr
    /\ T_arr2 \in TypesUnder(fnIn)

\* C5: the failure message lists every occurrence of a disallowed
\* construct in the tree, one diagnostic per occurrence, also an occurrence
\* inside another disallowed construct.
C5_EveryOccurrence ==
    fnPc = "done" =>
        /\ Len(fnOut.errors) = Len(Occurrences(fnIn))
        /\ \A i \in 1..Len(fnOut.errors) : fnOut.errors[i] = MsgOf(Occurrences(fnIn)[i])
        /\ Len(fnOut.errors) > 0 =>
               fnOut.err = <<"unsupported Go features detected:\n">>
                           \o JoinLines(fnOut.errors)

\* A loop whose body holds a go statement got the one diagnostic of the
\* loop.
C5_Witness ==
    /\ fnPc = "done"
    /\ Occurrences(fnIn) = <<"loop", "goroutine">>
    /\ fnOut.errors = <<MsgLoop>>

(***************************************************************************)
(* Properties of the type mapper.                                          *)
(***************************************************************************)
\* The identifier table as the claim C8 states it.
BasicIdentType(name) ==
    CASE name = S_bool   -> S_bool
      [] name = S_uint8  -> S_u8
      [] name = S_byte   -> S_u8
      [] name = S_uint16 -> S_u16
      [] name = S_uint32 -> S_u32
      [] name = S_uint64 -> S_u64
      [] OTHER -> name

\* The identifier table with the four names NewTypeMapper adds to it.
KnownIdentType(name) ==
    CASE name \in {S_Hash, S_Address, S_Pubkey} -> S_u256
      [] name = S_Signature -> S_sig64
      [] OTHER -> BasicIdentType(name)

LiteralIntLen(len) == len.kind = "BasicLit" /\ len.Kind = "INT"

HexChars == <<"0", "1", "2", "3", "4", "5", "6", "7", "8", "9",
              "a", "b", "c", "d", "e", "f">>

RECURSIVE DigitsValue(_, _, _)
\* The value of a string of digits in the given base, after acc.
DigitsValue(str, base, acc) ==
    IF str = <<>> THEN acc
    ELSE DigitsValue(Tail(str), base,
             acc * base + (CHOOSE i \in 1..16 : HexChars[i] = Head(str)) - 1)

\* The value of a Go integer literal: hexadecimal after "0x", octal after
\* a leading "0", else decimal.
GoIntLitValue(str) ==
    IF Len(str) > 2 /\ str[1] = "0" /\ str[2] = "x" THEN DigitsValue(Tail(Tail(str)), 16, 0)
    ELSE IF Len(str) > 1 /\ str[1] = "0" THEN DigitsValue(Tail(str), 8, 0)
    ELSE DigitsValue(str, 10, 0)

\* The qualified names of the alias table.
AliasNames == {S_Hash, S_Address, S_Pubkey, S_Signature, S_Amount}

RECURSIVE Unmappable(_)
\* Whether a type expression contains, at any depth, what C9 names as the
\* reasons of a failure: a qualified name outside the alias table, an
\* array whose length is no literal integer, an unsupported shape.
Unmappable(ty) ==
    CASE ty.kind = "Ident"        -> FALSE
      [] ty.kind = "SelectorExpr" ->
             ~(ty.X.kind = "Ident" /\ ty.X.Name = S_bitcoin /\ ty.Sel \in AliasNames)
      [] ty.kind = "ArrayType"    -> ~LiteralIntLen(ty.Len) \/ Unmappable(ty.Elt)
      [] ty.kind = "StructType"   ->
             \E i \in 1..Len(ty.Fields) : Unmappable(ty.Fields[i].Type)
      [] OTHER -> TRUE

\* C9: MapGoType fails, and returns no type string, exactly when the type
\* expression contains at some depth a qualified name outside the alias
\* table, an array whose length is no literal integer or an unsupported
\* shape; every array with a literal integer length N over a mappable
\* element maps to "[elem; N]".
C9_FailsExactlyWhenUnmappable ==
    fnPc = "done" =>
        /\ (fnOut.err # NoErr) <=> Unmappable(fnIn)
        /\ fnOut.err # NoErr => fnOut.val = <<>>
        /\ ( /\ fnIn.kind = "ArrayType"
             /\ LiteralIntLen(fnIn.Len)
             /\ ~Unmappable(fnIn.Elt) )
           => fnOut = Ok(<<"[">> \o MapGoType(fnIn.Elt).val \o <<";", " ">>
                         \o FormatInt(GoIntLitValue(fnIn.Len.Value)) \o <<"]">>)

\* The array type [0x20]byte was refused.
C9_Witness ==
    /\ fnPc = "done"
    /\ fnIn = ArrayType(IntLit(<<"0", "x", "2", "0">>), T_byte)
    /\ fnOut.err # NoErr

RECURSIVE SlotTypes(_)
\* The tuple slots of a field list: the mapped type of each field once per
\* declared name, an embedded field declaring the one name of its type.
SlotTypes(fields) ==
    IF fields = <<>> THEN <<>>
    ELSE [i \in 1..(IF Head(fields).Names = <<>> THEN 1 ELSE Len(Head(fields).Names)) |->
             MapGoType(Head(fields).Type).val]
         \o SlotTypes(Tail(fields))

\* C10: a struct type whose field types map yields "()" for no field,
\* "(T,)" when it declares exactly one field name, and else a tuple with
\* one slot per declared field name, in declaration order.
C10_StructTuple ==
    ( /\ fnPc = "done"
      /\ fnIn.kind = "StructType"
      /\ \A i \in 1..Len(fnIn.Fields) : MapGoType(fnIn.Fields[i].Type).err = NoErr )
    => /\ fnOut.err = NoErr
       /\ Len(fnIn.Fields) = 0 => fnOut.val = S_unit
       /\ Len(SlotTypes(fnIn.Fields)) = 1 =>
              fnOut.val = <<"(">> \o SlotTypes(fnIn.Fields)[1] \o <<",", ")">>
       /\ Len(SlotTypes(fnIn.Fields)) > 1 =>
              fnOut.val = <<"(">> \o Join(SlotTypes(fnIn.Fields), <<",", " ">>) \o <<")">>

\* A struct with a grouped declaration of two names and one more field of
\* another type was mapped.
C10_Witness ==
    /\ fnPc = "done"
    /\ fnIn.kind = "StructType"
    /\ Len(fnIn.Fields) = 2
    /\ Len(fnIn.Fields[1].Names) = 2
    /\ Len(fnIn.Fields[2].Names) = 1
    /\ fnIn.Fields[1].Type # fnIn.Fields[2].Type
    /\ fnOut.err = NoErr
    /\ Len(SlotTypes(fnIn.Fields)) = 3

(***************************************************************************)
(* Properties of GetBitSize.                                               *)
(***************************************************************************)
\* The reference table of bit widths.
ReferenceWidths ==
    { <<S_bool, 1>>, <<S_u8, 8>>, <<S_u16, 16>>, <<S_u32, 32>>, <<S_u64, 64>>,
      <<S_unit, 0>> }

\* The string opens with a bracket and holds a length separator.
Bracketed(s) == s # <<>> /\ s[1] = "[" /\ \E i \in 1..Len(s) : s[i] = ";"

\* C11: GetBitSize returns a number for every string and never panics; it
\* returns the width of the reference table for bool, u8, u16, u32, u64 and
\* "()", and 0 for a string that is no type name it knows and is not
\* array-shaped.
C11_BitSizeTotal ==
    fnPc = "sized" =>
        /\ fnOut.err = NoErr
        /\ fnOut.val \in Int
        /\ \A r \in ReferenceWidths : fnIn = r[1] => fnOut.val = r[2]
        /\ ~hasBitSizeCase(fnIn) /\ ~Bracketed(fnIn) => fnOut.val = 0

\* GetBitSize returned 0 for a bracketed string with nothing between the
\* bracket and the separator and no closing bracket.
C11_Witness ==
    /\ fnPc = "sized"
    /\ fnIn = <<"[", ";">>
    /\ fnOut = Ok(0)

\* C12: for an array type that maps, of whatever element type, the bit size
\* of the mapped string is the bit size of the mapped element type times
\* the literal count.
C12_ArrayWidth ==
    ( /\ fnPc = "mapped and sized"
      /\ fnIn.kind = "ArrayType"
      /\ fnOut.mapped.err = NoErr )
    => fnOut.bits = Ok(GetBitSize(MapGoType(fnIn.Elt).val).val
                       * ParseInt(fnIn.Len.Value).val)

\* An array of arrays of a type of non-zero width was mapped and sized, and
\* the size returned is 0.
C12_Witness ==
    /\ fnPc = "mapped and sized"
    /\ fnIn.kind = "ArrayType"
    /\ fnIn.Elt.kind = "ArrayType"
    /\ fnOut.mapped.err = NoErr
    /\ GetBitSize(MapGoType(fnIn.Elt).val).val > 0
    /\ ParseInt(fnIn.Len.Value).val > 0
    /\ fnOut.bits = Ok(0)

RECURSIVE SumWidths(_)
\* The sum of the bit sizes of a sequence of type strings.
SumWidths(slots) ==
    IF slots = <<>> THEN 0 ELSE GetBitSize(Head(slots)).val + SumWidths(Tail(slots))

\* C13: for a struct type that maps, the bit size of the tuple string is
\* the sum of the bit sizes of its slots.
C13_TupleWidth ==
    ( /\ fnPc = "mapped and sized"
      /\ fnIn.kind = "StructType"
      /\ fnOut.mapped.err = NoErr )
    => fnOut.bits = Ok(SumWidths(SlotTypes(fnIn.Fields)))

\* The struct of a uint8 and a uint32 field was mapped to "(u8, u32)" and
\* sized, and the size returned is 0, not 40.
C13_Witness ==
    /\ fnPc = "mapped and sized"
    /\ fnIn = StructType(<<Field(<<n_a>>, T_uint8), Field(<<n_b>>, Ident(S_uint32))>>)
    /\ fnOut.mapped = Ok(<<"(">> \o S_u8 \o <<",", " ">> \o S_u32 \o <<")">>)
    /\ SumWidths(SlotTypes(fnIn.Fields)) = 40
    /\ fnOut.bits = Ok(0)

(***************************************************************************)
(* Properties of the expression evaluator.                                 *)
(***************************************************************************)
IntLiteral(e) == e.kind = "BasicLit" /\ e.Kind = "INT"

\* The value of an integer literal node.
LitValue(e) == GoIntLitValue(e.Value)

\* Both operands of a binary expression are integer literals.
LiteralOperands(e) == e.kind = "BinaryExpr" /\ IntLiteral(e.X) /\ IntLiteral(e.Y)

CompareOps == {">", "<", ">=", "<=", "==", "!="}

\* Whether the comparison a op b holds.
Holds(op, a, b) ==
    CASE op = ">"  -> a > b
      [] op = "<"  -> a < b
      [] op = ">=" -> a >= b
      [] op = "<=" -> a <= b
      [] op = "==" -> a = b
      [] op = "!=" -> a # b

\* C14: for two integer literal operands and each of >, <, >=, <=, ==, !=
\* the evaluator returns "true" when the comparison holds and "false" when
\* it does not.
C14_Comparisons ==
    (fnPc = "evaluated" /\ LiteralOperands(fnIn) /\ fnIn.Op \in CompareOps)
    => fnOut = Ok(FormatBool(Holds(fnIn.Op, LitValue(fnIn.X), LitValue(fnIn.Y))))

\* The evaluator was run on 1 != 1 and returned "true".
C14_Witness ==
    /\ fnPc = "evaluated"
    /\ fnIn = BinaryExpr(Lit(1), "!=", Lit(1))
    /\ fnOut = Ok(S_true)

\* The mathematical result of a op b, the quotient truncated (b # 0).
Exact(op, a, b) ==
    CASE op = "+" -> a + b
      [] op = "-" -> a - b
      [] op = "*" -> a * b
      [] op = "/" -> a \div b

\* C15: for two integer literal operands of the unsigned type of the full
\* width the evaluator returns the decimal literal of a+b, a-b, a*b and of
\* the truncated quotient a/b for b # 0, and the fallback "true" for a/0.
C15_ExactArithmetic ==
    ( /\ fnPc = "evaluated"
      /\ LiteralOperands(fnIn)
      /\ fnIn.Op \in {"+", "-", "*", "/"}
      /\ LitValue(fnIn.X) < 2 * IntCutoff
      /\ LitValue(fnIn.Y) < 2 * IntCutoff )
    => IF fnIn.Op = "/" /\ LitValue(fnIn.Y) = 0
       THEN fnOut = Ok(S_true)
       ELSE fnOut = Ok(FormatInt(Exact(fnIn.Op, LitValue(fnIn.X), LitValue(fnIn.Y))))

\* The evaluator was run on the sum of the largest signed value and 1, both
\* values of the unsigned type, and returned the smallest signed value.
C15_Witness ==
    /\ fnPc = "evaluated"
    /\ fnIn = BinaryExpr(Lit(IntCutoff - 1), "+", Lit(1))
    /\ fnOut = Ok(FormatInt(0 - IntCutoff))

RECURSIVE StripParens(_)
\* The expression without its parentheses.
StripParens(e) ==
    CASE e.kind = "ParenExpr"  -> StripParens(e.X)
      [] e.kind = "BinaryExpr" -> BinaryExpr(StripParens(e.X), e.Op, StripParens(e.Y))
      [] e.kind = "UnaryExpr"  -> UnaryExpr(e.Op, StripParens(e.X))
      [] OTHER -> e

\* C16: an expression written with parentheses, around the whole of it or
\* around an operand, evaluates to what it evaluates to without them.
C16_ParensTransparent ==
    (fnPc = "evaluated" /\ StripParens(fnIn) # fnIn)
    => fnOut = evaluateExpression(StripParens(fnIn))

\* The evaluator was run on (40 + 2) and returned "true", where 40 + 2
\* folds to 42.
C16_Witness ==
    /\ fnPc = "evaluated"
    /\ fnIn = ParenExpr(BinaryExpr(Lit(40), "+", Lit(2)))
    /\ evaluateExpression(fnIn.X) = Ok(<<"4", "2">>)
    /\ fnOut = Ok(S_true)

\* C17: evaluating the boolean literal b yields b, and evaluating !b
\* yields the opposite literal.
C17_BooleanLiterals ==
    fnPc = "evaluated" =>
        /\ fnIn = Ident(S_true) => fnOut = Ok(S_true)
        /\ fnIn = Ident(S_false) => fnOut = Ok(S_false)
        /\ fnIn = UnaryExpr("!", Ident(S_true)) => fnOut = Ok(S_false)
        /\ fnIn = UnaryExpr("!", Ident(S_false)) => fnOut = Ok(S_true)

\* The evaluator was run on the literal false and returned "true".
C17_Witness ==
    /\ fnPc = "evaluated"
    /\ fnIn = Ident(S_false)
    /\ fnOut = Ok(S_true)

(***************************************************************************)
(* Properties of the translation.                                          *)
(***************************************************************************)
\* ToSimplicityHL returned a text and no error.
Translated == fnPc = "translated" /\ fnOut.ret.err = NoErr

\* The (name, initializer) pairs of one value specification, with the type
\* written in it.
SpecPairs(spec) ==
    [i \in 1..(IF Len(spec.Names) < Len(spec.Values)
               THEN Len(spec.Names) ELSE Len(spec.Values)) |->
        [name |-> spec.Names[i], type |-> spec.Type, value |-> spec.Values[i]]]

RECURSIVE SpecsPairs(_)
SpecsPairs(specs) ==
    IF specs = <<>> THEN <<>> ELSE SpecPairs(Head(specs)) \o SpecsPairs(Tail(specs))

\* A local variable declaration.
IsVarDecl(s) == s.kind = "DeclStmt" /\ s.Decl.kind = "GenDecl" /\ s.Decl.Tok = "var"

\* A short-form declaration-assignment.
IsDefine(s) == s.kind = "AssignStmt" /\ s.Tok = ":="

RECURSIVE VarPairs(_)
\* The (name, initializer) pairs of the variable declarations among stmts.
VarPairs(stmts) ==
    IF stmts = <<>> THEN <<>>
    ELSE (IF IsVarDecl(Head(stmts)) THEN SpecsPairs(Head(stmts).Decl.Specs) ELSE <<>>)
         \o VarPairs(Tail(stmts))

RECURSIVE WitnessSources(_)
\* What C18 says is recorded from the statements of a block, as (name,
\* initializer) pairs in source order.
WitnessSources(stmts) ==
    IF stmts = <<>> THEN <<>>
    ELSE (CASE IsVarDecl(Head(stmts)) -> SpecsPairs(Head(stmts).Decl.Specs)
            [] IsDefine(Head(stmts)) ->
                   <<[name |-> Head(stmts).Lhs[1].Name, type |-> Nil,
                      value |-> Head(stmts).Rhs[1]]>>
            [] OTHER -> <<>>)
         \o WitnessSources(Tail(stmts))

RECURSIVE MainBody(_)
\* The statements of the body block of the entry function among decls.
MainBody(decls) ==
    IF decls = <<>> THEN <<>>
    ELSE (IF Head(decls).kind = "FuncDecl" /\ Head(decls).Name = S_main
          THEN Head(decls).Body.List ELSE <<>>)
         \o MainBody(Tail(decls))

RECURSIVE ConstPairs(_)
\* The (name, value) pairs of the top-level constant declarations.
ConstPairs(decls) ==
    IF decls = <<>> THEN <<>>
    ELSE (IF Head(decls).kind = "GenDecl" /\ Head(decls).Tok = "const"
          THEN SpecsPairs(Head(decls).Specs) ELSE <<>>)
         \o ConstPairs(Tail(decls))

\* C18: after a translation the recorded witnesses are, in source order,
\* one per (name, initializer) pair of each variable declaration and one
\* per short-form declaration-assignment standing directly in the body of
\* the entry function, named after the variable and holding the evaluated
\* initializer, and nothing else.
C18_WitnessList ==
    Translated =>
        [i \in 1..Len(fnOut.t.witnessValues) |->
            <<fnOut.t.witnessValues[i].Name, fnOut.t.witnessValues[i].Value>>]
        = [i \in 1..Len(WitnessSources(MainBody(fnIn.Decls))) |->
            <<toSnakeCase(WitnessSources(MainBody(fnIn.Decls))[i].name),
              evaluateExpression(WitnessSources(MainBody(fnIn.Decls))[i].value).val>>]

\* A body of the declaration of two variables and a plain assignment to
\* one of them was translated, and three witnesses are recorded.
C18_Witness ==
    /\ Translated
    /\ MainBody(fnIn.Decls)
       = <<VarStmt(<<n_x, n_y>>, T_uint8, <<Lit(1), Lit(2)>>),
           AssignStmt(<<Ident(n_x)>>, "=", <<Lit(2)>>)>>
    /\ Len(WitnessSources(MainBody(fnIn.Decls))) = 2
    /\ Len(fnOut.t.witnessValues) = 3

\* The lines before the first line "}".
RECURSIVE UpToClose(_)
UpToClose(lines) ==
    IF lines = <<>> \/ Head(lines) = <<"}">> THEN <<>>
    ELSE <<Head(lines)>> \o UpToClose(Tail(lines))

\* The lines of the output text.
Lines(out) == Split(out, "\n")

\* The bindings of the witness block: the lines after the first line.
WitnessBlock(out) == UpToClose(Tail(Lines(out)))

\* The bindings of the parameter block, which follows the witness block's
\* closing line and its own opening line.
ParamBlock(out) ==
    UpToClose(SubSeq(Lines(out), Len(WitnessBlock(out)) + 4, Len(Lines(out))))

\* The binding C19 and C20 describe for a (name, initializer) pair.
BindingLine(e) ==
    <<"    const ">> \o ToUpper(toSnakeCase(e.name)) \o <<": ">>
    \o (IF e.type = Nil THEN S_u64 ELSE MapGoType(e.type).val)
    \o <<" = ">> \o evaluateExpression(e.value).val \o <<";">>

\* C19: every (name, initializer) pair of a variable declaration of the
\* entry function has the binding "const NAME: T = V;" in the witness
\* block, T being the mapped type of the annotation, u64 without one.
C19_WitnessBindings ==
    Translated =>
        \A i \in 1..Len(VarPairs(MainBody(fnIn.Decls))) :
            \E j \in 1..Len(WitnessBlock(fnOut.ret.text)) :
                WitnessBlock(fnOut.ret.text)[j]
                = BindingLine(VarPairs(MainBody(fnIn.Decls))[i])

\* The declaration of a variable of a type named auto, with the initializer
\* 5, was translated, and its binding in the witness block has type u64.
C19_Witness ==
    /\ Translated
    /\ MainBody(fnIn.Decls) = <<VarStmt(<<n_p>>, Ident(S_auto), <<Lit(5)>>)>>
    /\ MapGoType(Ident(S_auto)) = Ok(S_auto)
    /\ WitnessBlock(fnOut.ret.text)
       = << <<"    const ">> \o <<"P">> \o <<": ">> \o S_u64 \o <<" = ">> \o <<"5">> \o <<";">> >>

EndsWith(s, suffix) ==
    Len(s) >= Len(suffix) /\ SubSeq(s, Len(s) - Len(suffix) + 1, Len(s)) = suffix

OtherFunctions(decls) ==
    SelectSeq(decls, LAMBDA d : d.kind = "FuncDecl" /\ d.Name # S_main)

\* The lower-case word-separated form of a name: every letter in lower
\* case, and a separator before each upper-case letter but the first
\* character.
WordSeparated(name) ==
    LET U(i) == Cardinality({k \in 2..i : IsUpper(name[k])})
    IN [j \in 1..(Len(name) + U(Len(name))) |->
           IF \E i \in 2..Len(name) : IsUpper(name[i]) /\ i + U(i) - 1 = j
           THEN "_"
           ELSE LowerOf(name[CHOOSE i \in 1..Len(name) : i + U(i) = j])]

RECURSIVE ParamEntries(_)
\* The "name: type" entries of a parameter list: one per name of each
\* field, in order.
ParamEntries(fields) ==
    IF fields = <<>> THEN <<>>
    ELSE [i \in 1..Len(Head(fields).Names) |->
             WordSeparated(Head(fields).Names[i]) \o <<": ">>
             \o MapGoType(Head(fields).Type).val]
         \o ParamEntries(Tail(fields))

\* The first line of the declaration emitted for the function d.
Signature(d) ==
    <<"fn ">> \o WordSeparated(d.Name) \o <<"(">>
    \o Join(ParamEntries(d.Params), <<",", " ">>) \o <<")">>
    \o (IF d.Results # <<>>
        THEN <<" -> ">> \o MapGoType(d.Results[1].Type).val ELSE <<>>)
    \o <<" {">>

\* The lines of the output that open a function declaration.
FnLines(out) ==
    SelectSeq(Lines(out), LAMBDA l : l # <<>> /\ l[1] \in {"fn ", "fn main() {"})

SingleReturn(block) ==
    /\ Len(block.List) = 1
    /\ block.List[1].kind = "ReturnStmt"
    /\ Len(block.List[1].Results) = 1

\* The two-arm match on the identifier name.
MatchOn(name) ==
    <<"    match ">> \o WordSeparated(name)
    \o <<" {\n", "        0 => false,\n", "        _ => true,\n", "    }">>

\* The body C22 describes for a function body.
BodyByShape(block) ==
    IF SingleReturn(block)
    THEN CASE /\ block.List[1].Results[1].kind = "BinaryExpr"
              /\ block.List[1].Results[1].Op = ">"
              /\ block.List[1].Results[1].X.kind = "Ident"
                -> MatchOn(block.List[1].Results[1].X.Name)
           [] block.List[1].Results[1].kind = "Ident"
                -> WordSeparated(block.List[1].Results[1].Name)
           [] OTHER -> S_true
    ELSE S_true

\* C22: the synthesized body is the two-arm match on the identifier when
\* the function body is exactly one return statement of "identifier >
\* something", the identifier's word-separated name when it is exactly one
\* return statement of an identifier, and "true" for every other body,
\* those of more than one statement included.
C22_BodyByShape ==
    fnPc = "body analyzed" => fnOut = Ok(BodyByShape(fnIn))

\* A body of two statements, b := a and return b, was analyzed, and the
\* synthesized body is b.
C22_Witness ==
    /\ fnPc = "body analyzed"
    /\ fnIn = BlockStmt(<<Define(n_b, Ident(n_a)), ReturnStmt(<<Ident(n_b)>>)>>)
    /\ BodyByShape(fnIn) = S_true
    /\ fnOut = Ok(n_b)

(***************************************************************************)
(* Properties of the entry point.                                          *)
(***************************************************************************)
\* The name contains "result", whatever the case of its letters.
NamesResult(name) ==
    \E i \in 1..(Len(name) - 5) : \A k \in 1..6 : LowerOf(name[i + k - 1]) = S_result[k]

\* The positions of the recorded witnesses whose name contains "result".
ResultWitnesses(t) ==
    {i \in 1..Len(t.witnessValues) : NamesResult(t.witnessValues[i].Name)}

\* The first of them.
FirstResult(t) ==
    t.witnessValues[CHOOSE i \in ResultWitnesses(t) :
                        \A j \in ResultWitnesses(t) : i <= j]

\* The assertion statements of the output.
AssertLines(out) ==
    SelectSeq(Lines(out),
              LAMBDA l : l # <<>> /\ l[1] \in {"    assert!(", "    assert!(true);"})

\* The lines of the entry point: the last four lines of the output, the
\* last being what follows the final line break.
EntryPoint(out) == SubSeq(Lines(out), Len(Lines(out)) - 3, Len(Lines(out)))

EmittedBool(t, out, i) ==
    HasPrefix(WitnessBlock(out)[i],
              <<"    const ">> \o ToUpper(t.witnessValues[i].Name) \o <<": ">>
              \o S_bool \o <<" = ">>)

\* The positions of the boolean-typed witnesses, in recorded order.
BoolWitnesses(t, out) ==
    SelectSeq([i \in 1..Len(t.witnessValues) |-> i], LAMBDA i : EmittedBool(t, out, i))

\* The assertion that invokes the function f with the first witnesses at
\* the positions B, one per parameter name of f.
InvokeWith(t, f, B) ==
    <<"    assert!(">> \o WordSeparated(f.Name) \o <<"(">>
    \o Join([n \in 1..Len(ParamEntries(f.Params)) |->
                <<"witness::">> \o ToUpper(t.witnessValues[B[n]].Name)],
            <<",", " ">>)
    \o <<"));">>

\* The assertion C24 describes when no witness name contains "result".
LogicAssertion(decls, t, out) ==
    IF OtherFunctions(decls) = <<>> THEN <<"    assert!(true);">>
    ELSE IF Len(BoolWitnesses(t, out))
            >= Len(ParamEntries(OtherFunctions(decls)[Len(OtherFunctions(decls))].Params))
    THEN InvokeWith(t, OtherFunctions(decls)[Len(OtherFunctions(decls))],
                    BoolWitnesses(t, out))
    ELSE <<"    assert!(true);">>

\* C24: when no witness name contains "result", the entry assertion invokes
\* the last function with the first k boolean-typed witnesses in recorded
\* order, k being the number of its parameters, when there are at least k
\* boolean-typed witnesses; it is assert!(true) when there are fewer and
\* when there is no function.
C24_LogicAssertion ==
    (Translated /\ ResultWitnesses(fnOut.t) = {}) =>
        AssertLines(fnOut.ret.text)
        = <<LogicAssertion(fnIn.Decls, fnOut.t, fnOut.ret.text)>>

\* Validate(amountValid bool) and an entry function of x := 0x10 were
\* translated: x is emitted with the type bool, and the assertion is
\* assert!(true).
C24_Witness ==
    /\ Translated
    /\ OtherFunctions(fnIn.Decls) = <<F_Validate>>
    /\ MainBody(fnIn.Decls) = <<E_hex>>
    /\ WitnessBlock(fnOut.ret.text)
       = << <<"    const ", "X", ": ", "b", "o", "o", "l", " = ", "0", "x", "1", "0", ";">> >>
    /\ AssertLines(fnOut.ret.text) = << <<"    assert!(true);">> >>

(***************************************************************************)
(* Properties of the output's structure.                                   *)
(***************************************************************************)
\* The characters of the fixed fragments a declaration's first line is
\* written from.
FragmentChars(frag) ==
    CASE frag = "fn "         -> <<"f", "n", " ">>
      [] frag = " {"          -> <<" ", "{">>
      [] frag = ": "          -> <<":", " ">>
      [] frag = " -> "        -> <<" ", "-", ">", " ">>
      [] frag = "fn main() {" -> <<"f", "n", " ", "m", "a", "i", "n", "(", ")", " ", "{">>
      [] OTHER                -> <<frag>>

RECURSIVE Characters(_)
\* A line of the output, character by character.
Characters(line) ==
    IF line = <<>> THEN <<>>
    ELSE FragmentChars(Head(line)) \o Characters(Tail(line))

\* The lines of the output that read "fn main() {".
EntryDeclarations(out) ==
    SelectSeq(Lines(out),
              LAMBDA l : Characters(l) = FragmentChars("fn main() {"))

\* The number of lines of the output up to the blank line after the
\* parameter block.
BlocksEnd(out) == Len(WitnessBlock(out)) + Len(ParamBlock(out)) + 5

\* C25: the output of a translation is the witness block, the parameter
\* block, a blank line, one declaration per recorded function in recorded
\* order, each followed by a blank line, and the entry point with one
\* assertion; exactly one line of it declares fn main() and exactly one is
\* an assertion.
C25_FixedStructure ==
    Translated =>
        /\ Lines(fnOut.ret.text)[1] = <<"mod witness {">>
        /\ Lines(fnOut.ret.text)[Len(WitnessBlock(fnOut.ret.text)) + 2] = <<"}">>
        /\ Lines(fnOut.ret.text)[Len(WitnessBlock(fnOut.ret.text)) + 3] = <<"mod param {">>
        /\ Lines(fnOut.ret.text)[BlocksEnd(fnOut.ret.text) - 1] = <<"}">>
        /\ Lines(fnOut.ret.text)[BlocksEnd(fnOut.ret.text)] = <<>>
        /\ Len(Lines(fnOut.ret.text))
           = BlocksEnd(fnOut.ret.text) + 4 * Len(fnOut.t.functions) + 4
        /\ \A i \in 1..Len(fnOut.t.functions) :
               /\ HasPrefix(Lines(fnOut.ret.text)[BlocksEnd(fnOut.ret.text) + 4 * i - 3],
                            <<"fn ">> \o fnOut.t.functions[i].Name \o <<"(">>)
               /\ Lines(fnOut.ret.text)[BlocksEnd(fnOut.ret.text) + 4 * i - 2]
                  = <<"    ">> \o fnOut.t.functions[i].Body
               /\ Lines(fnOut.ret.text)[BlocksEnd(fnOut.ret.text) + 4 * i - 1] = <<"}">>
               /\ Lines(fnOut.ret.text)[BlocksEnd(fnOut.ret.text) + 4 * i] = <<>>
        /\ EntryPoint(fnOut.ret.text)[1] = <<"fn main() {">>
        /\ EntryPoint(fnOut.ret.text)[3] = <<"}">>
        /\ Len(AssertLines(fnOut.ret.text)) = 1
        /\ EntryPoint(fnOut.ret.text)[2] = AssertLines(fnOut.ret.text)[1]
        /\ Len(EntryDeclarations(fnOut.ret.text)) = 1

\* A tree with the function Main and the entry function main was
\* translated, and two lines of the output read "fn main() {".
C25_Witness ==
    /\ Translated
    /\ fnIn = File(<<F_Main, MainDecl(<<>>)>>)
    /\ Len(EntryDeclarations(fnOut.ret.text)) = 2
    /\ Len(AssertLines(fnOut.ret.text)) = 1

(***************************************************************************)
(* The documented P2PK example.                                            *)
(***************************************************************************)
\* The example's input: ValidateP2PK(signatureValid bool) bool returning
\* signatureValid, and an entry function of signatureValid := true,
\* result := ValidateP2PK(signatureValid) and if !result { return }.
P2PKExample ==
    File(<<F_ValidateP2PK,
           MainDecl(<<E_signatureValid, E_result, E_ifNotResult>>)>>)

SIGNATURE_VALID ==
    <<"S", "I", "G", "N", "A", "T", "U", "R", "E", "_", "V", "A", "L", "I", "D">>

\* C26: the translation of the P2PK example has a witness block of exactly
\* the binding "const SIGNATURE_VALID: bool = true;" and the entry
\* assertion "assert!(validate_p2pk(witness::SIGNATURE_VALID));".
C26_P2PKExample ==
    (fnPc = "translated" /\ fnIn = P2PKExample) =>
        /\ fnOut.ret.err = NoErr
        /\ WitnessBlock(fnOut.ret.text)
           = << <<"    const ">> \o SIGNATURE_VALID \o <<": ">> \o S_bool
                \o <<" = ">> \o S_true \o <<";">> >>
        /\ Characters(EntryPoint(fnOut.ret.text)[2])
           = <<"    assert!(">>
             \o <<"v", "a", "l", "i", "d", "a", "t", "e", "_", "p", "2", "p", "k">>
             \o <<"(", "witness::">> \o SIGNATURE_VALID \o <<"));">>

\* The P2PK example was translated: the witness block has the two bindings
\* SIGNATURE_VALID and RESULT, the function is declared as validate_p2_p_k,
\* and the entry assertion is assert!(witness::RESULT).
C26_Witness ==
    /\ Translated
    /\ fnIn = P2PKExample
    /\ WitnessBlock(fnOut.ret.text)
       = << <<"    const ">> \o SIGNATURE_VALID \o <<": ">> \o S_bool
            \o <<" = ">> \o S_true \o <<";">>,
            <<"    const ", "R", "E", "S", "U", "L", "T", ": ">> \o S_bool
            \o <<" = ">> \o S_true \o <<";">> >>
    /\ fnOut.t.functions[1].Name
       = <<"v", "a", "l", "i", "d", "a", "t", "e", "_", "p", "2", "_", "p", "_", "k">>
    /\ EntryPoint(fnOut.ret.text)[2]
       = <<"    assert!(", "witness::", "R", "E", "S", "U", "L", "T", ");">>

(***************************************************************************)
(* Properties of the emitted bindings.                                     *)
(***************************************************************************)
\* How each (name, initializer) pair of one value specification is
\* recorded: with the mapped type of the annotation, or the default u64.
SpecOrigins(spec) ==
    [i \in 1..Len(SpecPairs(spec)) |->
        [deferred |-> FALSE,
         type |-> IF spec.Type = Nil THEN S_u64 ELSE MapGoType(spec.Type).val]]

RECURSIVE SpecsOrigins(_)
SpecsOrigins(specs) ==
    IF specs = <<>> THEN <<>>
    ELSE SpecOrigins(Head(specs)) \o SpecsOrigins(Tail(specs))

RECURSIVE Origins(_)
\* How each witness of the entry function's body is recorded, in recorded
\* order: by a variable declaration, with an explicit or default type, or
\* by an assignment of one expression to one name, with the deferred type.
Origins(stmts) ==
    IF stmts = <<>> THEN <<>>
    ELSE (CASE IsVarDecl(Head(stmts)) -> SpecsOrigins(Head(stmts).Decl.Specs)
            [] /\ Head(stmts).kind = "AssignStmt"
               /\ Len(Head(stmts).Lhs) = 1
               /\ Len(Head(stmts).Rhs) = 1 -> <<[deferred |-> TRUE, type |-> <<>>]>>
            [] OTHER -> <<>>)
         \o Origins(Tail(stmts))

\* A decimal integer of the machine's width: an optional sign, then digits
\* only, the value in range.
DecimalInteger(v) ==
    /\ v # <<>>
    /\ \A i \in 2..Len(v) : IsDigit(v[i])
    /\ IsDigit(v[1]) \/ (v[1] \in {"+", "-"} /\ Len(v) > 1)
    /\ v[1] = "-" => DigitsValue(Tail(v), 10, 0) <= IntCutoff
    /\ v[1] = "+" => DigitsValue(Tail(v), 10, 0) < IntCutoff
    /\ IsDigit(v[1]) => DigitsValue(v, 10, 0) < IntCutoff

\* The type C27 gives the binding of a witness recorded as origin says,
\* with the folded value v.
TypeByOrigin(origin, v) ==
    IF origin.deferred
    THEN IF v \in {S_true, S_false} THEN S_bool
         ELSE IF DecimalInteger(v) THEN S_u64
         ELSE S_bool
    ELSE origin.type

\* C27: in the output of a translation the binding of a witness recorded
\* with the deferred type has the type bool when its value is true or
\* false, u64 when the value is a decimal integer, and bool otherwise; the
\* binding of a witness recorded with an explicit or default type has that
\* type.
C27_EmittedTypes ==
    Translated =>
        /\ Len(Origins(MainBody(fnIn.Decls))) = Len(WitnessBlock(fnOut.ret.text))
        /\ \A i \in 1..Len(Origins(MainBody(fnIn.Decls))) :
               HasPrefix(WitnessBlock(fnOut.ret.text)[i],
                         <<"    const ">> \o ToUpper(fnOut.t.witnessValues[i].Name)
                         \o <<": ">>
                         \o TypeByOrigin(Origins(MainBody(fnIn.Decls))[i],
                                         fnOut.t.witnessValues[i].Value)
                         \o <<" = ">>)

\* An entry function of x := 0x10 and var p auto = 5 was translated: x has
\* the deferred type and is emitted as bool, p has the explicit type auto
\* and is emitted as u64.
C27_Witness ==
    /\ Translated
    /\ MainBody(fnIn.Decls) = <<E_hex, E_auto>>
    /\ Origins(MainBody(fnIn.Decls))
       = <<[deferred |-> TRUE, type |-> <<>>], [deferred |-> FALSE, type |-> S_auto]>>
    /\ WitnessBlock(fnOut.ret.text)
       = << <<"    const ", "X", ": ">> \o S_bool \o <<" = ", "0", "x", "1", "0", ";">>,
            <<"    const ", "P", ": ">> \o S_u64 \o <<" = ", "5", ";">> >>

\* The type and the value of a binding "    const NAME: TYPE = VALUE;".
BindingType(line) ==
    SubSeq(line, (CHOOSE i \in 1..Len(line) : line[i] = ": ") + 1,
                 (CHOOSE i \in 1..Len(line) : line[i] = " = ") - 1)

BindingValue(line) ==
    SubSeq(line, (CHOOSE i \in 1..Len(line) : line[i] = " = ") + 1, Len(line) - 1)

\* A non-negative integer literal: decimal digits, or hexadecimal digits
\* after "0x".
NonNegativeLiteral(v) ==
    \/ v # <<>> /\ \A i \in 1..Len(v) : IsDigit(v[i])
    \/ /\ Len(v) > 2
       /\ v[1] = "0"
       /\ v[2] = "x"
       /\ \A i \in 3..Len(v) : \E h \in 1..16 : HexChars[h] = v[i]

\* The type of the binding and its value agree.
Consistent(line) ==
    /\ BindingType(line) \in {S_u8, S_u16, S_u32, S_u64}
           => NonNegativeLiteral(BindingValue(line))
    /\ BindingType(line) = S_bool => BindingValue(line) \in {S_true, S_false}

\* C28: in the output of a translation every binding of the witness block
\* and of the parameter block with an unsigned integer type has a
\* non-negative integer literal as its value, and every binding with the
\* type bool has the value true or false.
C28_TypeValueConsistency ==
    Translated =>
        /\ \A i \in 1..Len(WitnessBlock(fnOut.ret.text)) :
               Consistent(WitnessBlock(fnOut.ret.text)[i])
        /\ \A i \in 1..Len(ParamBlock(fnOut.ret.text)) :
               Consistent(ParamBlock(fnOut.ret.text)[i])

\* An entry function of var k = 0 - 5 and x := 0x10 was translated: k is
\* bound as a u64 of value -5 and x as a bool of value 0x10.
C28_Witness ==
    /\ Translated
    /\ MainBody(fnIn.Decls) = <<E_negative, E_hex>>
    /\ BindingType(WitnessBlock(fnOut.ret.text)[1]) = S_u64
    /\ BindingValue(WitnessBlock(fnOut.ret.text)[1]) = <<"-", "5">>
    /\ BindingType(WitnessBlock(fnOut.ret.text)[2]) = S_bool
    /\ BindingValue(WitnessBlock(fnOut.ret.text)[2]) = <<"0", "x", "1", "0">>

\* The name of a binding "    const NAME: TYPE = VALUE;".
BindingName(line) ==
    SubSeq(line, 2, (CHOOSE i \in 1..Len(line) : line[i] = ": ") - 1)

\* No two bindings of the block have the same name.
UniqueNames(block) ==
    \A i, j \in 1..Len(block) :
        BindingName(block[i]) = BindingName(block[j]) => i = j

\* C29: in the output of a translation no two bindings of the witness
\* block have the same name, and no two bindings of the parameter block.
C29_UniqueNames ==
    Translated =>
        /\ UniqueNames(WitnessBlock(fnOut.ret.text))
        /\ UniqueNames(ParamBlock(fnOut.ret.text))

\* An entry function of x := 0x10 and x = 2 was translated, and the witness
\* block has two bindings named X.
C29_Witness ==
    /\ Translated
    /\ MainBody(fnIn.Decls) = <<E_hex, E_assign>>
    /\ Len(WitnessBlock(fnOut.ret.text)) = 2
    /\ BindingName(WitnessBlock(fnOut.ret.text)[1]) = <<"X">>
    /\ BindingName(WitnessBlock(fnOut.ret.text)[2]) = <<"X">>

(***************************************************************************)
(* Properties of the entry assertion's types.                              *)
(***************************************************************************)
\* The positions of the witness references in an assertion line.
RefPositions(line) == {i \in 1..Len(line) : line[i] = "witness::"}

\* The position of the n-th of them.
RefPosition(line, n) ==
    CHOOSE i \in RefPositions(line) :
        Cardinality({j \in RefPositions(line) : j < i}) = n - 1

\* The end of the reference that starts at position p: the position of the
\* next separator or closing fragment.
RefEnd(line, p) ==
    CHOOSE e \in (p + 1)..Len(line) :
        /\ line[e] \in {",", ");", "));"}
        /\ \A d \in (p + 1)..(e - 1) : line[d] \notin {",", ");", "));"}

\* The name of the n-th witness an assertion line references.
RefName(line, n) ==
    SubSeq(line, RefPosition(line, n) + 1, RefEnd(line, RefPosition(line, n)) - 1)

\* The witness block declares a binding of that name with that type.
TypedAs(out, name, type) ==
    \E i \in 1..Len(WitnessBlock(out)) :
        /\ BindingName(WitnessBlock(out)[i]) = name
        /\ BindingType(WitnessBlock(out)[i]) = type

\* The assertion line asserts a witness directly.
AssertsWitness(line) == Len(line) > 1 /\ line[2] = "witness::"

\* The assertion line invokes a function.
InvokesFunction(line) == line # <<"    assert!(true);">> /\ ~AssertsWitness(line)

\* The invocation passes one witness per parameter of the function f, each
\* declared with the type of its parameter, and f returns bool.
WellTypedCall(out, line, f) ==
    /\ Cardinality(RefPositions(line)) = Len(f.Parameters)
    /\ \A n \in 1..Len(f.Parameters) :
           TypedAs(out, RefName(line, n), f.Parameters[n].Type)
    /\ f.ReturnType = S_bool

\* C30: in the output of a translation, an entry assertion that invokes a
\* function passes as i-th argument a witness declared with the type of
\* the function's i-th parameter, and the function returns bool; an entry
\* assertion of a witness asserts one declared with the type bool.
C30_WellTypedAssertion ==
    Translated =>
        /\ AssertsWitness(EntryPoint(fnOut.ret.text)[2])
               => TypedAs(fnOut.ret.text, RefName(EntryPoint(fnOut.ret.text)[2], 1), S_bool)
        /\ InvokesFunction(EntryPoint(fnOut.ret.text)[2])
               => WellTypedCall(fnOut.ret.text, EntryPoint(fnOut.ret.text)[2],
                                fnOut.t.functions[Len(fnOut.t.functions)])

\* Check(x uint64) bool and an entry function of signatureValid := true
\* were translated: the assertion invokes check with the witness
\* SIGNATURE_VALID, which is declared as bool, the parameter being u64.
C30_Witness ==
    /\ Translated
    /\ fnIn = File(<<F_Check, MainDecl(<<E_signatureValid>>)>>)
    /\ EntryPoint(fnOut.ret.text)[2]
       = <<"    assert!(", "c", "h", "e", "c", "k", "(", "witness::">>
         \o SIGNATURE_VALID \o <<"));">>
    /\ TypedAs(fnOut.ret.text, SIGNATURE_VALID, S_bool)
    /\ fnOut.t.functions[1].Parameters[1].Type = S_u64

====
